---- MODULE Spec2Model ----
(***************************************************************************)
(* A model of the Top.gg python SDK's rate limiter (topgg/ratelimiter.py),  *)
(* request gate (DBLClient.__request, topgg/client.py) and webhook handlers *)
(* (topgg/webhook.py, topgg/webhooks.py).                                   *)
(*                                                                          *)
(* Time is a natural number of seconds.  A coroutine runs atomically from   *)
(* one await that really suspends to the next, as on one asyncio event      *)
(* loop.  asyncio.sleep(d) resumes at or after the requested instant.       *)
(* asyncio.Lock is modelled by its holder; any task waiting for a free lock *)
(* may take it (a superset of asyncio's first-come order).                  *)
(*                                                                          *)
(* client.py imports Ratelimiter and Ratelimiters from topgg/ratelimiter.py, *)
(* which defines them under the names AsyncRateLimiter and                  *)
(* AsyncRateLimiterManager: the client's limiters are modelled by these.    *)
(* The client owns its session (session=None) but under SpecSession, where  *)
(* it may have been given one.  VoteDataDict.__init__ (topgg/types.py)      *)
(* accepts keyword arguments only, and WebhookManager's handler calls it    *)
(* with the parsed dict as a positional argument.                           *)
(***************************************************************************)
EXTENDS Integers, Sequences, FiniteSets, TLC

\* ---------------------------------------------------------------- bounds
\* Number of concurrent tasks sharing one limiter.
NTasks == 3
\* max_calls and period of the limiter under test (constructor arguments).
max_calls == 2
period == 2
\* The clock stops advancing at MaxTime.
MaxTime == 5
\* Total number of admissions recorded in the history.
MaxOps == 4

\* Total number of POSTs the webhook routes receive.
MaxPosts == 2

\* Number of posts one autopost loop begins.
MaxLoopPosts == 2

\* Transport calls granted to the callers in all: every request takes one,
\* and every retry after a soft 429 takes one more (caps the recursion of
\* __request).
MaxCalls == 3
\* The clock of the client model advances Step seconds at a time, ClockSteps
\* times.
Step == 5
ClockSteps == 3
\* The client's limiters, scaled from Ratelimiter(99, 1) and
\* Ratelimiter(59, 60) so that their windows fill within the bounds.
global_max_calls == 2
global_period == 5
bot_max_calls == 1
bot_period == 10

\* ------------------------------------------------------ program constants
MAXIMUM_DELAY_THRESHOLD == 5
\* AutoPoster.__init__: self._interval = 900; set_interval: seconds < 900
DefaultInterval == 900
MinimumInterval == 900

Tasks == 1..NTasks
Times == 0..MaxTime
\* The concurrent callers of DBLClient.__request.
Reqs == {1, 2}

VARIABLES
  now,        \* the clock: datetime.utcnow().timestamp() / time()
  calls,      \* AsyncRateLimiter.calls: the deque of timestamps
  lock,       \* AsyncRateLimiter.__lock: 0 when free, else the holding task
  lpc,        \* where each task is: idle, sleep (in __aenter__), guarded
  until,      \* the instant a task sleeping in __aenter__ resumes at
  admits,     \* history: one record per return from __aenter__
  rels,       \* history: the instant of every completed __aexit__
  evictions   \* history: number of timestamps popped by __aexit__


VARIABLES
  closed,            \* DBLClient.is_closed: self.__session.closed
  own_session,       \* DBLClient.__own_session
  current_ratelimit, \* DBLClient.__current_ratelimit, -1 for None
  lims,              \* the client's limiters global_ and bot: calls and lock
  rpc,               \* where each caller is inside __request
  req,               \* the arguments of the caller's request
  li,                \* index of the limiter being acquired or released
  depth,             \* entered `async with ratelimiter` blocks still open
  wake,              \* the instant a sleeping caller resumes at
  ncalls,            \* history: transport calls made by the caller's request
  first,             \* history: the answer to the first of them
  answered,          \* history: when the answer being backed off from came
  last,              \* history: the latest of them and its answer
  outcome,           \* what the request returned or raised
  promised,          \* history: the latest instant any hard block reaches
  granted            \* transport calls granted so far

VARIABLES
  default_auth,      \* Webhooks.__default_auth, "unbuilt" before __init__
  default_port,      \* Webhooks.__default_port, 0 for None
  handlers,          \* the POST routes of the routers, and the secret of each
  inflight,          \* the request each route's handler is serving
  log,               \* history: the requests answered so far
  running,           \* Webhooks.__running
  is_running,        \* WebhookManager._is_running
  listeners,         \* the ports each server's sites are listening on
  webserver,         \* WebhookManager._webserver: the site start() made last
  raised             \* what the last start() or close() raised, or "none"

VARIABLES
  interval,          \* AutoPoster._interval
  has_stats,         \* hasattr(self, '_stats')
  has_success,       \* whether AutoPoster._success is set
  task,              \* AutoPoster._task: 0 for None, else the loop task
  stopping,          \* AutoPoster._stopping
  loops,             \* the loop tasks start() made: position, result, history
  thrown             \* what the last call of an AutoPoster method raised

VARIABLES
  data,              \* DataContainerMixin._data: the instance kept per type
  lookup_cache,      \* DataContainerMixin._lookup_cache
  result             \* what the last set_data or get_data raised and returned

VARIABLES
  endpoint,          \* the WebhookEndpoint being set up: its attributes
  refused            \* the message of what the last endpoint() raised, or "none"

VARIABLES
  hpc,               \* where HTTPClient.request is: idle, limsleep, inflight, backoff, done
  hreq,              \* the endpoint of the call and whether the client has a token
  hround,            \* the iteration of `for _ in range(2)` the call is in
  hseen,             \* history: the status of each response of this call, in order
  hout,              \* what the call returned or raised
  hlims,             \* the call windows of HTTPClient's two limiters
  hli,               \* the sub-limiter whose __aenter__ is sleeping
  hwake,             \* the instant the current sleep ends
  hcalls             \* history: the calls of request made so far

limVars == <<calls, lock, lpc, until, admits, rels, evictions>>
clientVars == <<closed, own_session, current_ratelimit, lims, rpc, req, li,
                depth, wake, ncalls, first, answered, last, outcome, promised,
                granted>>
lifeVars == <<running, is_running, listeners, webserver, raised>>
hookVars == <<default_auth, default_port, handlers, inflight, log, lifeVars>>
posterVars == <<interval, has_stats, has_success, task, stopping, loops, thrown>>
dataVars == <<data, lookup_cache, result>>
builderVars == <<endpoint, refused>>
httpVars == <<hpc, hreq, hround, hseen, hout, hlims, hli, hwake, hcalls>>
sideVars == <<posterVars, dataVars, builderVars, httpVars>>
vars == <<now, limVars, clientVars, hookVars, sideVars>>

\* ------------------------------------------------- AsyncRateLimiter (pure)

\* AsyncRateLimiter._timespan: calls[-1] - calls[0]
Timespan(c) == c[Len(c)] - c[1]

\* A variant of the test below that lets one call too many through.
FullOffByOne(c, mc) == Len(c) > mc
\* the test of __aenter__: len(self.calls) >= self.max_calls
Full(c, mc) == Len(c) >= mc

\* until = now + period - _timespan
UntilOf(c, t, p) == t + p - Timespan(c)

\* A variant of the eviction below that keeps a span equal to the period.
RECURSIVE EvictStrict(_, _)
EvictStrict(c, p) == IF Timespan(c) > p THEN EvictStrict(Tail(c), p) ELSE c
\* while self._timespan >= self.period: self.calls.popleft()
RECURSIVE Evict(_, _)
Evict(c, p) == IF Timespan(c) >= p THEN Evict(Tail(c), p) ELSE c

\* the body of __aexit__: append the timestamp, then evict
Recorded(c, t, p) == Evict(Append(c, t), p)

\* ------------------------------------------------------------------ Init
InitLimiter ==
  /\ calls = <<>>
  /\ lock = 0
  /\ lpc = [t \in Tasks |-> "idle"]
  /\ until = [t \in Tasks |-> 0]
  /\ admits = <<>>
  /\ rels = <<>>
  /\ evictions = 0


\* --------------------------------------------------------------- actions
\* The clock advances.
Tick ==
  /\ now < MaxTime
  /\ now' = now + 1
  /\ UNCHANGED <<limVars, clientVars, hookVars, sideVars>>

Admission(slept, oldest) == [at |-> now, slept |-> slept, oldest |-> oldest]

\* AsyncRateLimiter.__aenter__ up to its first suspension: the lock is taken;
\* a full window computes `until` and sleeps with the lock held, otherwise the
\* lock is released and the caller is admitted.
Enter(t) ==
  /\ lpc[t] = "idle"
  /\ lock = 0
  /\ Len(admits) < MaxOps
  /\ IF Full(calls, max_calls) /\ UntilOf(calls, now, period) - now > 0
       THEN /\ lock' = t
            /\ lpc' = [lpc EXCEPT ![t] = "sleep"]
            /\ until' = [until EXCEPT ![t] = UntilOf(calls, now, period)]
            /\ UNCHANGED admits
       ELSE /\ lpc' = [lpc EXCEPT ![t] = "guarded"]
            /\ admits' = Append(admits, Admission(FALSE, -1))
            /\ UNCHANGED <<lock, until>>
  /\ UNCHANGED <<now, calls, rels, evictions>>
  /\ UNCHANGED <<clientVars, hookVars, sideVars>>

\* asyncio.sleep(sleep_time) returns: the lock is released, __aenter__ returns.
Wake(t) ==
  /\ lpc[t] = "sleep"
  /\ now >= until[t]
  /\ lock' = 0
  /\ lpc' = [lpc EXCEPT ![t] = "guarded"]
  /\ admits' = Append(admits, Admission(TRUE, calls[1]))
  /\ UNCHANGED <<now, calls, until, rels, evictions>>
  /\ UNCHANGED <<clientVars, hookVars, sideVars>>

\* A variant of the action below that does not take the lock.
ExitUnlocked(t) ==
  /\ lpc[t] = "guarded"
  /\ calls' = Recorded(calls, now, period)
  /\ evictions' = evictions + (Len(calls) + 1 - Len(calls'))
  /\ rels' = Append(rels, now)
  /\ lpc' = [lpc EXCEPT ![t] = "idle"]
  /\ UNCHANGED <<now, lock, until, admits>>
  /\ UNCHANGED <<clientVars, hookVars, sideVars>>

\* AsyncRateLimiter.__aexit__: under the lock, append now and evict.
Exit(t) ==
  /\ lpc[t] = "guarded"
  /\ lock = 0
  /\ calls' = Recorded(calls, now, period)
  /\ evictions' = evictions + (Len(calls) + 1 - Len(calls'))
  /\ rels' = Append(rels, now)
  /\ lpc' = [lpc EXCEPT ![t] = "idle"]
  /\ UNCHANGED <<now, lock, until, admits>>
  /\ UNCHANGED <<clientVars, hookVars, sideVars>>

\* A variant of the action below in which the cancelled task keeps the lock.
CancelSleepLeaky(t) ==
  /\ lpc[t] = "sleep"
  /\ lpc' = [lpc EXCEPT ![t] = "idle"]
  /\ UNCHANGED <<now, calls, lock, until, admits, rels, evictions>>
  /\ UNCHANGED <<clientVars, hookVars, sideVars>>

\* The task is cancelled while it sleeps in __aenter__: CancelledError leaves
\* `async with self.__lock`, which releases the lock; the task was not
\* admitted, so no __aexit__ follows.
CancelSleep(t) ==
  /\ lpc[t] = "sleep"
  /\ lock' = 0
  /\ lpc' = [lpc EXCEPT ![t] = "idle"]
  /\ UNCHANGED <<now, calls, until, admits, rels, evictions>>
  /\ UNCHANGED <<clientVars, hookVars, sideVars>>

\* The task is cancelled inside the guarded region (its request in flight):
\* CancelledError leaves `async with ratelimiter`, whose __aexit__ waits for
\* the lock.
CancelGuarded(t) ==
  /\ lpc[t] = "guarded"
  /\ lpc' = [lpc EXCEPT ![t] = "unwinding"]
  /\ UNCHANGED <<now, calls, lock, until, admits, rels, evictions>>
  /\ UNCHANGED <<clientVars, hookVars, sideVars>>

\* __aexit__ of the cancelled task: under the lock, append now and evict.
Unwind(t) ==
  /\ lpc[t] = "unwinding"
  /\ lock = 0
  /\ calls' = Recorded(calls, now, period)
  /\ evictions' = evictions + (Len(calls) + 1 - Len(calls'))
  /\ rels' = Append(rels, now)
  /\ lpc' = [lpc EXCEPT ![t] = "idle"]
  /\ UNCHANGED <<now, lock, until, admits>>
  /\ UNCHANGED <<clientVars, hookVars, sideVars>>

\* One limiter shared by concurrent tasks.
NextLimiter ==
  \/ Tick
  \/ \E t \in Tasks : Enter(t)
  \/ \E t \in Tasks : Wake(t)
  \/ \E t \in Tasks : Exit(t)

\* The task that runs the autopost loop.
Posting == {1}

\* One limiter shared by two tasks, the autopost loop and another caller
\* of the client.  The loop's task may be cancelled where it is suspended
\* (between two uses of the limiter a cancellation meets no limiter code);
\* a loop started after it uses the limiter as the same task of the model.
NextCancel ==
  \/ Tick
  \/ \E t \in Reqs : Enter(t)
  \/ \E t \in Reqs : Wake(t)
  \/ \E t \in Reqs : Exit(t)
  \/ \E t \in Posting : CancelSleep(t)
  \/ \E t \in Posting : CancelGuarded(t)
  \/ \E t \in Posting : Unwind(t)

\* One limiter used sequentially: a cycle starts only when no other is open.
EnterAlone(t) ==
  /\ \A u \in Tasks \ {t} : lpc[u] = "idle"
  /\ Enter(t)

NextSequential ==
  \/ Tick
  \/ \E t \in Tasks : EnterAlone(t)
  \/ \E t \in Tasks : Wake(t)
  \/ \E t \in Tasks : Exit(t)

\* ------------------------------------------------ DBLClient.__request
\* The requests the client's methods make: post_guild_count, get_bots and
\* get_weekend_status.  "none" stands for None (or an empty dict).
Requests ==
  { [method |-> "POST", path |-> "/bots/stats", params |-> "none", body |-> "server_count"],
    [method |-> "GET", path |-> "/bots", params |-> "limit", body |-> "none"],
    [method |-> "GET", path |-> "/weekend", params |-> "none", body |-> "none"] }

NoRequest == [method |-> "none", path |-> "none", params |-> "none", body |-> "none"]

\* path.startswith('/bots')
StartsWithBots(path) == path \in {"/bots/stats", "/bots"}

\* A variant of the choice below that enters the bot limiter first.
LimitersBotFirst(path) == IF StartsWithBots(path) THEN <<"bot", "global_">> ELSE <<"global_">>
\* the ratelimiter of a path: Ratelimiters iterates (global_, bot)
LimitersOf(path) == IF StartsWithBots(path) THEN <<"global_", "bot">> ELSE <<"global_">>

MaxCallsOf(l) == IF l = "global_" THEN global_max_calls ELSE bot_max_calls
PeriodOf(l) == IF l = "global_" THEN global_period ELSE bot_period

\* The arguments of the recursive call: self.__request(method, path)
RetryArguments(a) == [a EXCEPT !.params = "none", !.body = "none"]

\* The arguments of the i-th transport call of a request
ArgumentsOf(a, i) == IF i = 1 THEN a ELSE RetryArguments(a)

\* A variant of the test below that takes the threshold itself for hard.
IsHardInclusive(ra) == ra >= MAXIMUM_DELAY_THRESHOLD
\* if retry_after > MAXIMUM_DELAY_THRESHOLD
IsHard(ra) == ra > MAXIMUM_DELAY_THRESHOLD

\* A variant of the test below for which a recorded block never expires.
IsBlockedForever(cr, t) == cr /= -1
\* current_time < self.__current_ratelimit, when one is set
IsBlocked(cr, t) == cr /= -1 /\ t < cr

\* A variant of the sleep below that resumes at once.
NoBackoff(t, ra) == t
\* await asyncio.sleep(retry_after): the instant the retry resumes at
BackoffUntil(t, ra) == t + ra

\* What the transport may answer: Retry-After values around the threshold
\* (0 is also what a missing header reads as), and the statuses.
RetryAfterValues ==
  {0, MAXIMUM_DELAY_THRESHOLD, MAXIMUM_DELAY_THRESHOLD + Step,
   MAXIMUM_DELAY_THRESHOLD + 2 * Step}
ErrorStatuses == {404, 500}

NoOutcome == [kind |-> "none", value |-> 0]
NoAnswer == [status |-> 0, retry_after |-> 0]
NoCall == [args |-> NoRequest, waited |-> 0, status |-> 0, retry_after |-> 0]

\* The classes of topgg/errors.py: everything the library raises itself is a
\* TopGGException.  An exception of the transport ("TransportError": aiohttp's
\* ClientConnectionError, asyncio.TimeoutError) is not.
LibraryErrors ==
  {"TopGGException", "ClientException", "ClientStateException", "HTTPException",
   "Ratelimited"}

\* A variant of the property below that never sees the session closed.
is_open_always == FALSE
\* DBLClient.is_closed: self.__session.closed
is_closed == closed

\* DBLClient.__init__ but for the session.
InitGate ==
  /\ closed = FALSE
  /\ current_ratelimit = -1
  /\ lims = [l \in {"global_", "bot"} |-> [calls |-> <<>>, lock |-> 0]]
  /\ rpc = [r \in Reqs |-> "idle"]
  /\ req = [r \in Reqs |-> NoRequest]
  /\ li = [r \in Reqs |-> 0]
  /\ depth = [r \in Reqs |-> 0]
  /\ wake = [r \in Reqs |-> 0]
  /\ ncalls = [r \in Reqs |-> 0]
  /\ first = [r \in Reqs |-> NoAnswer]
  /\ answered = [r \in Reqs |-> 0]
  /\ last = [r \in Reqs |-> NoCall]
  /\ outcome = [r \in Reqs |-> NoOutcome]
  /\ promised = 0
  /\ granted = 0

\* DBLClient(token): the client creates its session and owns it.
InitClient ==
  /\ own_session = TRUE
  /\ InitGate

\* DBLClient(token, session=s): the session is the caller's.
InitSupplied ==
  /\ own_session = FALSE
  /\ InitGate

\* ------------------------------------------------------- webhook handlers
\* The routes, the secrets a route may be configured with, the Authorization
\* header of a POST ("absent" when it carries none) and its body: a vote, JSON
\* that is no vote, or bytes that are not JSON.  "None" stands for None.
Routes == {"/dblwebhook", "/votes"}
Secrets == {"", "youshallnotpass"}
Headers == {"absent", "", "youshallnotpass", "wrong"}
Bodies == {"vote", "novote", "notjson"}

\* request.headers.get("Authorization", "")
AuthorizationOf(h) == IF h = "absent" THEN "" ELSE h

\* the test of both handlers: request.headers.get("Authorization", "") != auth
Unauthorized(h, auth) == AuthorizationOf(h) /= auth

\* WebhookEndpoint.__init__ sets _auth = ""; WebhookEndpoint.auth replaces it.
EndpointAuth(a) == IF a = "None" THEN "" ELSE a

\* Webhooks.on_vote: auth = auth or self.__default_auth
AuthOr(a, d) == IF a \in {"None", ""} THEN d ELSE a

\* A variant of the operator below that builds a vote from any JSON body.
EventOfAnyJson(kind, b) ==
  IF b = "notjson" THEN "JSONDecodeError" ELSE "Vote"

\* What the handler gets from the body before it calls the callback.
\* `await request.json()` raises on a body that is not JSON.  Webhooks builds
\* Vote(json), which raises KeyError on JSON that has no 'user' or 'type'.
\* WebhookManager builds BotVoteData(data) or GuildVoteData(data): their
\* __init__(self, **kwargs) takes no positional argument, so the call raises
\* TypeError whatever the JSON is.
EventOf(kind, b) ==
  IF b = "notjson" THEN "JSONDecodeError"
  ELSE IF kind = "WebhookManager" THEN "TypeError"
  ELSE IF b = "vote" THEN "Vote"
  ELSE "KeyError"

\* What a callback returns: a plain value, or the awaitable of an
\* asynchronous callback.
Returned == {"value", "awaitable"}

\* A variant of the test below that awaits nothing.
never_awaitable(res) == FALSE

\* isawaitable(response)
isawaitable(res) == res = "awaitable"

NoHandler == [kind |-> "none", auth |-> "None"]
Idle == [pc |-> "idle", header |-> "absent", body |-> "vote"]

\* The ports the servers are started on, and the two servers.
WebhooksPorts == {8080}
ManagerPorts == {5000}
Ports == WebhooksPorts \cup ManagerPorts
NoPort == 0
Servers == {"Webhooks", "WebhookManager"}

\* start(): port = port or self.__default_port
PortOr(p, d) == IF p = NoPort THEN d ELSE p

\* The ports some site of this process is listening on.
Bound == UNION {listeners[s] : s \in Servers}

\* A server whose application requests can reach.
Listening(s) == listeners[s] /= {}

\* WebhookManager._webserver before start() assigns it: the slot is unset.
NoSite == [port |-> NoPort, state |-> "unset"]

InitWebhook ==
  /\ default_auth = "unbuilt"
  /\ default_port = NoPort
  /\ handlers = [r \in Routes |-> NoHandler]
  /\ inflight = [r \in Routes |-> Idle]
  /\ log = <<>>
  /\ running = FALSE
  /\ is_running = FALSE
  /\ listeners = [s \in Servers |-> {}]
  /\ webserver = NoSite
  /\ raised = "none"

\* ---- the endpoints of WebhookManager
WebhookType == {"BOT", "GUILD"}

\* WebhookEndpoint.__init__: only _auth is set
NoEndpoint == [callback |-> FALSE, type |-> "unset", route |-> "unset", auth |-> ""]

\* A variant of the checks below that looks for the route first.
EndpointErrorRouteFirst(e) ==
  IF e.route = "unset" THEN "endpoint missing route."
  ELSE IF ~e.callback THEN "endpoint missing callback."
  ELSE IF e.type = "unset" THEN "endpoint missing type."
  ELSE "none"
\* ---- HTTPClient.request (topgg/http.py): one caller at a time ----

HTTPStatuses == {200, 302, 400, 401, 403, 404, 405, 429, 500}
HTTPEndpoints == {"/bots/stats", "/weekend"}
RetryAfterHeader == {0, Step}
NoHTTPRequest == [endpoint |-> "", token |-> FALSE, loop_kwarg |-> FALSE]

InitHTTP ==
  /\ hpc = "idle"
  /\ hreq = NoHTTPRequest
  /\ hround = 0
  /\ hseen = <<>>
  /\ hout = "none"
  /\ hlims = [l \in {"global_", "bot"} |-> <<>>]
  /\ hli = 0
  /\ hwake = 0
  /\ hcalls = 0

\* The limiters of a call: both for '/bots...', else the global one.
HTTPLimiters(e) == IF StartsWithBots(e) THEN <<"global_", "bot">> ELSE <<"global_">>

\* The first limiter from position k on whose __aenter__ sleeps, or
\* Len(ls) + 1 when none does.
HTTPStop(ls, k, lk) ==
  LET S == {j \in k..Len(ls) :
              /\ Full(lk[ls[j]], MaxCallsOf(ls[j]))
              /\ UntilOf(lk[ls[j]], now, PeriodOf(ls[j])) > now}
  IN IF S = {} THEN Len(ls) + 1 ELSE CHOOSE j \in S : \A x \in S : j <= x

\* `async with rate_limiters:` of iteration `round`, entered from limiter k
\* on: the attempt is made once no limiter sleeps.
HTTPEnter(e, k, round, lk) ==
  LET ls == HTTPLimiters(e)
      j == HTTPStop(ls, k, lk)
  IN /\ hround' = round
     /\ hlims' = lk
     /\ IF j > Len(ls)
          THEN /\ hpc' = "inflight"
               /\ hli' = 0
               /\ UNCHANGED hwake
          ELSE /\ hpc' = "limsleep"
               /\ hli' = j
               /\ hwake' = UntilOf(lk[ls[j]], now, PeriodOf(ls[j]))

\* The windows after the `async with` of an attempt is left.
HTTPReleased(e, lk) ==
  [l \in {"global_", "bot"} |->
     IF \E i \in 1..Len(HTTPLimiters(e)) : HTTPLimiters(e)[i] = l
       THEN Recorded(lk[l], now, PeriodOf(l)) ELSE lk[l]]

\* The exception a response status is turned into, "" when no branch of
\* the chain raises for it.
HTTPErrorOf(s) ==
  IF s = 400 THEN "HTTPException"
  ELSE IF s = 401 THEN "Unauthorized"
  ELSE IF s = 403 THEN "Forbidden"
  ELSE IF s = 404 THEN "NotFound"
  ELSE IF s >= 500 THEN "ServerError"
  ELSE ""

\* The end of an iteration that neither returned nor raised: the next
\* iteration of `for _ in range(2)`, or the raise after the loop.
HTTPLoop(e, lk) ==
  IF hround < 2
    THEN /\ HTTPEnter(e, 1, hround + 1, lk)
         /\ UNCHANGED hout
    ELSE /\ hpc' = "done"
         /\ hout' = "HTTPException"
         /\ hlims' = lk
         /\ UNCHANGED <<hround, hli, hwake>>

\* A call of request. `loop_kwarg` tells whether asyncio.sleep of the running
\* Python still takes the `loop` argument (it raises TypeError otherwise).
HTTPRequest(e, tok, loop_kwarg) ==
  /\ hpc \in {"idle", "done"}
  /\ hcalls < MaxCalls
  /\ hcalls' = hcalls + 1
  /\ hreq' = [endpoint |-> e, token |-> tok, loop_kwarg |-> loop_kwarg]
  /\ hseen' = <<>>
  /\ IF ~tok
       THEN /\ hpc' = "done"
            /\ hout' = "UnauthorizedDetected"
            /\ hround' = 0
            /\ UNCHANGED <<hlims, hli, hwake>>
       ELSE /\ hout' = "none"
            /\ HTTPEnter(e, 1, 1, hlims)
  /\ UNCHANGED <<now, limVars, clientVars, hookVars, posterVars, dataVars, builderVars>>

HTTPWake ==
  /\ hpc = "limsleep"
  /\ now >= hwake
  /\ HTTPEnter(hreq.endpoint, hli + 1, hround, hlims)
  /\ UNCHANGED <<now, limVars, clientVars, hookVars, posterVars, dataVars, builderVars,
                 hreq, hseen, hout, hcalls>>

\* The response of an attempt.
HTTPRespond(s, ra) ==
  /\ hpc = "inflight"
  /\ hseen' = Append(hseen, s)
  /\ LET e == hreq.endpoint
         out == HTTPReleased(e, hlims)
     IN IF 300 > s /\ s >= 200
          THEN /\ hpc' = "done"
               /\ hout' = "ok"
               /\ hlims' = out
               /\ UNCHANGED <<hround, hli, hwake>>
        ELSE IF s = 429
          THEN IF hreq.loop_kwarg
                 THEN /\ hpc' = "backoff"
                      /\ hwake' = now + ra
                      /\ UNCHANGED <<hround, hli, hlims, hout>>
                 ELSE /\ hpc' = "done"
                      /\ hout' = "TypeError"
                      /\ hlims' = out
                      /\ UNCHANGED <<hround, hli, hwake>>
        ELSE IF HTTPErrorOf(s) /= ""
          THEN /\ hpc' = "done"
               /\ hout' = HTTPErrorOf(s)
               /\ hlims' = out
               /\ UNCHANGED <<hround, hli, hwake>>
        ELSE HTTPLoop(e, out)
  /\ UNCHANGED <<now, limVars, clientVars, hookVars, posterVars, dataVars, builderVars,
                 hreq, hcalls>>

HTTPBackoffEnds ==
  /\ hpc = "backoff"
  /\ now >= hwake
  /\ HTTPLoop(hreq.endpoint, HTTPReleased(hreq.endpoint, hlims))
  /\ UNCHANGED <<now, limVars, clientVars, hookVars, posterVars, dataVars, builderVars,
                 hreq, hseen, hcalls>>

HTTPTick ==
  /\ now < ClockSteps * Step
  /\ now' = now + Step
  /\ UNCHANGED <<limVars, clientVars, hookVars, sideVars>>

NextHTTP ==
  \/ HTTPTick
  \/ \E e \in HTTPEndpoints, tok, k \in BOOLEAN : HTTPRequest(e, tok, k)
  \/ HTTPWake
  \/ \E s \in HTTPStatuses, ra \in RetryAfterHeader : HTTPRespond(s, ra)
  \/ HTTPBackoffEnds



\* WebhookManager.endpoint: the three hasattr checks, in their order
EndpointError(e) ==
  IF ~e.callback THEN "endpoint missing callback."
  ELSE IF e.type = "unset" THEN "endpoint missing type."
  ELSE IF e.route = "unset" THEN "endpoint missing route."
  ELSE "none"

InitBuilder ==
  /\ endpoint = NoEndpoint
  /\ refused = "none"

\* ---- the autoposter
\* The loop tasks start() can make.
LoopTasks == {1, 2}
\* A value of the model for `seconds`: a number, or a timedelta of so many
\* minutes.
Seconds == [kind : {"number"}, value : {0, 899, 900, 901}]
             \cup [kind : {"timedelta"}, value : {14, 15, 60}]

\* timedelta.total_seconds() of a timedelta of whole minutes
total_seconds(d) == d.value * 60

\* set_interval: the number of seconds its argument stands for
SecondsOf(x) == IF x.kind = "timedelta" THEN total_seconds(x) ELSE x.value

\* A variant of the test below that only refuses what is not positive.
TooShortIfNotPositive(seconds) == seconds <= 0

\* set_interval: seconds < 900
TooShort(seconds) == seconds < MinimumInterval

\* The errors a post can fail with: HTTPException with code 401, another
\* HTTPException, another Exception.
PostErrors == {"HTTPException401", "HTTPException500", "Exception"}

\* A variant of the test below that stops the loop on no error.
IsUnauthorizedNever(err) == FALSE

\* _internal_loop: isinstance(err, errors.HTTPException) and err.code == 401
IsUnauthorized(err) == err = "HTTPException401"

\* A loop task that start() has not made yet.  pc is where the task stands,
\* must_cancel whether cancel() asked for it to end, err the error of the
\* post it is handling, ended how its coroutine ended.  History: started
\* counts the posts it began; outcome, errors and successes are the outcome
\* of its last post and the callbacks invoked for it; allowed is the number
\* of posts it may begin in all, fixed when stop() was accepted for it, -1
\* before.
NoLoop ==
  [pc |-> "unborn", must_cancel |-> FALSE, err |-> "none", ended |-> "none",
   started |-> 0, outcome |-> "none", errors |-> 0, successes |-> 0,
   allowed |-> -1]

\* task.done()
Done(t) == loops[t].pc \in {"finished", "done"}

\* AutoPoster.is_running
is_running_poster == task /= 0 /\ ~Done(task)

\* AutoPoster.__init__
InitPoster ==
  /\ interval = DefaultInterval
  /\ has_stats = FALSE
  /\ has_success = FALSE
  /\ task = 0
  /\ stopping = FALSE
  /\ loops = [t \in LoopTasks |-> NoLoop]
  /\ thrown = "none"

\* ---- the data container
\* The types of the model: DBLClient is the container's own type, a subclass
\* of DataContainerMixin; Base, Mid, Leaf and Other are classes of the
\* caller, Mid and Other subclasses of Base, Leaf a subclass of Mid.
Types == {"DataContainerMixin", "DBLClient", "Base", "Mid", "Leaf", "Other"}

\* type_.mro(), from the type itself to object
Mro(type_) ==
  CASE type_ = "DataContainerMixin" -> <<"DataContainerMixin", "object">>
    [] type_ = "DBLClient" -> <<"DBLClient", "DataContainerMixin", "object">>
    [] type_ = "Base" -> <<"Base", "object">>
    [] type_ = "Mid" -> <<"Mid", "Base", "object">>
    [] type_ = "Leaf" -> <<"Leaf", "Mid", "Base", "object">>
    [] type_ = "Other" -> <<"Other", "Base", "object">>

\* type_.__subclasses__(), in the order the classes were defined
Subclasses(type_) ==
  CASE type_ = "DataContainerMixin" -> <<"DBLClient">>
    [] type_ = "Base" -> <<"Mid", "Other">>
    [] type_ = "Mid" -> <<"Leaf">>
    [] OTHER -> <<>>

\* The elements of a sequence.
Range(s) == {s[i] : i \in 1..Len(s)}

\* A variant of the operator below that leaves the type's bases out.
NoSupers(type_) == {}

\* set_data: type_.mro()[1:-1], the type itself and object excluded
Supers(type_) == Range(SubSeq(Mro(type_), 2, Len(Mro(type_)) - 1))

\* The instances set_data is called with: two of every class of the caller
\* and of the container's class, instance 1 of which is the container.
Ids == {1, 2}
Instances == [type : Types \ {"DataContainerMixin"}, id : Ids]

\* _UNSET
Unset == [type |-> "none", id |-> 0]

\* self._data.get(type_, _UNSET)
DataGet(d, type_) ==
  IF d[type_] = 0 THEN Unset ELSE [type |-> type_, id |-> d[type_]]

\* DataContainerMixin._resolve_data(type_) on the dictionaries d and c:
\* _UNSET, or (is_subclass, data)
RECURSIVE ResolveData(_, _, _)
RECURSIVE ResolveFirst(_, _, _, _)
ResolveFirst(d, c, subs, i) ==
  IF i > Len(subs) THEN [is_subclass |-> FALSE, data |-> Unset]
  ELSE IF ResolveData(d, c, subs[i]).data /= Unset
    THEN [is_subclass |-> TRUE, data |-> ResolveData(d, c, subs[i]).data]
    ELSE ResolveFirst(d, c, subs, i + 1)

ResolveData(d, c, type_) ==
  IF DataGet(d, type_) /= Unset THEN [is_subclass |-> FALSE, data |-> DataGet(d, type_)]
  ELSE IF c[type_] /= Unset THEN [is_subclass |-> FALSE, data |-> c[type_]]
  ELSE ResolveFirst(d, c, Subclasses(type_), 1)

\* What get_data(type_) returns on the dictionaries d and c (Unset stands
\* for the default, None).
Got(d, c, type_) == ResolveData(d, c, type_).data

\* DataContainerMixin.__init__: self._data = {type(self): self}
InitData ==
  /\ data = [type_ \in Types |-> IF type_ = "DBLClient" THEN 1 ELSE 0]
  /\ lookup_cache = [type_ \in Types |-> Unset]
  /\ result = [raised |-> "none", value |-> Unset]

Init ==
  /\ now = 0
  /\ InitLimiter
  /\ InitClient
  /\ InitWebhook
  /\ InitPoster
  /\ InitData
  /\ InitBuilder
  /\ InitHTTP

\* A client of either kind.
InitSession ==
  /\ now = 0
  /\ InitLimiter
  /\ InitClient \/ InitSupplied
  /\ InitWebhook
  /\ InitPoster
  /\ InitData
  /\ InitBuilder
  /\ InitHTTP

\* A client that has made one request so far, to '/weekend', answered 2xx
\* at instant 0: the global limiter has recorded it.
InitAnswered ==
  /\ now = 0
  /\ InitLimiter
  /\ own_session = TRUE
  /\ closed = FALSE
  /\ current_ratelimit = -1
  /\ lims = [l \in {"global_", "bot"} |->
               [calls |-> IF l = "global_" THEN Recorded(<<>>, 0, PeriodOf(l)) ELSE <<>>,
                lock |-> 0]]
  /\ rpc = [r \in Reqs |-> "idle"]
  /\ req = [r \in Reqs |-> NoRequest]
  /\ li = [r \in Reqs |-> 0]
  /\ depth = [r \in Reqs |-> 0]
  /\ wake = [r \in Reqs |-> 0]
  /\ ncalls = [r \in Reqs |-> 0]
  /\ first = [r \in Reqs |-> NoAnswer]
  /\ answered = [r \in Reqs |-> 0]
  /\ last = [r \in Reqs |-> NoCall]
  /\ outcome = [r \in Reqs |-> NoOutcome]
  /\ promised = 0
  /\ granted = 0
  /\ InitWebhook
  /\ InitPoster
  /\ InitData
  /\ InitBuilder
  /\ InitHTTP

\* The instants the client can still tell apart from later ones: a sleeping
\* caller's resumption, the end of the hard block, and the instant the newest
\* timestamp of a limiter leaves its window.
Deadlines ==
  {wake[r] : r \in {x \in Reqs : rpc[x] \in {"limsleep", "backoff"}}}
    \cup {current_ratelimit}
    \cup {lims[l].calls[Len(lims[l].calls)] + PeriodOf(l) :
            l \in {x \in {"global_", "bot"} : lims[x].calls /= <<>>}}

\* The clock of the client advances while some deadline lies ahead.
ClientTick ==
  /\ now < ClockSteps * Step
  /\ \E d \in Deadlines : now < d
  /\ now' = now + Step
  /\ UNCHANGED <<limVars, clientVars, hookVars, sideVars>>

\* ---- running a caller from one suspension to the next
\* `async with ratelimiter` from the k-th limiter of the path on: __aenter__
\* of a limiter whose lock is free and whose window is not full returns
\* without suspending.  The caller stops at the first limiter whose lock is
\* held (it waits) or whose window is full (it sleeps, holding the lock).
\* Past the last limiter it makes the transport call of line 180.
Sleeps(l) ==
  /\ Full(lims[l].calls, MaxCallsOf(l))
  /\ UntilOf(lims[l].calls, now, PeriodOf(l)) - now > 0

Stops(l) == lims[l].lock /= 0 \/ Sleeps(l)

FirstStop(ls, k) ==
  IF \E j \in k..Len(ls) : Stops(ls[j])
    THEN CHOOSE j \in k..Len(ls) : Stops(ls[j]) /\ \A i \in k..(j - 1) : ~Stops(ls[i])
    ELSE Len(ls) + 1

\* The transport call number n of the request a, and the time since the
\* answer to the call before it.
TransportCall(r, a, n) ==
  [args |-> ArgumentsOf(a, n), waited |-> IF n = 1 THEN 0 ELSE now - answered[r],
   status |-> 0, retry_after |-> 0]

\* The caller r, whose request a has made n transport calls, the latest being
\* lst, enters the limiters of the path from the k-th on; lk is the limiters'
\* state it starts from.
AcquireFrom(r, a, k, n, lst, lk) ==
  LET ls == LimitersOf(a.path)
      j == FirstStop(ls, k)
  IN IF j > Len(ls)
       THEN /\ rpc' = [rpc EXCEPT ![r] = "inflight"]
            /\ li' = [li EXCEPT ![r] = 0]
            /\ depth' = [depth EXCEPT ![r] = depth[r] + 1]
            /\ ncalls' = [ncalls EXCEPT ![r] = n + 1]
            /\ last' = [last EXCEPT ![r] = TransportCall(r, a, n + 1)]
            /\ answered' = [answered EXCEPT ![r] = 0]
            /\ lims' = lk
            /\ UNCHANGED wake
       ELSE IF lims[ls[j]].lock /= 0
         THEN /\ rpc' = [rpc EXCEPT ![r] = "acquire"]
              /\ li' = [li EXCEPT ![r] = j]
              /\ lims' = lk
              /\ ncalls' = [ncalls EXCEPT ![r] = n]
              /\ last' = [last EXCEPT ![r] = lst]
              /\ UNCHANGED <<depth, wake, answered>>
         ELSE /\ rpc' = [rpc EXCEPT ![r] = "limsleep"]
              /\ li' = [li EXCEPT ![r] = j]
              /\ lims' = [lk EXCEPT ![ls[j]].lock = r]
              /\ wake' = [wake EXCEPT ![r] =
                            UntilOf(lims[ls[j]].calls, now, PeriodOf(ls[j]))]
              /\ ncalls' = [ncalls EXCEPT ![r] = n]
              /\ last' = [last EXCEPT ![r] = lst]
              /\ UNCHANGED <<depth, answered>>

\* Leaving d open `async with ratelimiter` blocks, innermost first, from the
\* k-th limiter of the innermost on: __aexit__ of each limiter of the path in
\* turn records `now` under the limiter's lock.  The caller stops at a
\* limiter whose lock is held.
RECURSIVE Unwound(_, _, _, _)
Unwound(lk, ls, d, k) ==
  IF d = 0 THEN [lims |-> lk, depth |-> 0, li |-> 0]
  ELSE IF lk[ls[k]].lock /= 0 THEN [lims |-> lk, depth |-> d, li |-> k]
  ELSE LET rec == [lk EXCEPT ![ls[k]].calls = Recorded(@, now, PeriodOf(ls[k]))]
       IN IF k < Len(ls) THEN Unwound(rec, ls, d, k + 1)
                         ELSE Unwound(rec, ls, d - 1, 1)

Leave(r, a, k) ==
  LET u == Unwound(lims, LimitersOf(a.path), depth[r], k)
  IN /\ lims' = u.lims
     /\ depth' = [depth EXCEPT ![r] = u.depth]
     /\ li' = [li EXCEPT ![r] = u.li]
     /\ rpc' = [rpc EXCEPT ![r] = IF u.depth = 0 THEN "done" ELSE "release"]

\* __request returns or raises.
Finish(r, a, kind, value) ==
  /\ outcome' = [outcome EXCEPT ![r] = [kind |-> kind, value |-> value]]
  /\ Leave(r, a, 1)

\* The head of __request (lines 149-158), run by the caller r at instant `now`:
\* the closed check, then the hard block check, which clears an expired
\* block; then the limiters and the transport call.
RequestHead(r, a, n, lst) ==
  IF is_closed
    THEN /\ Finish(r, a, "ClientStateException", 0)
         /\ ncalls' = [ncalls EXCEPT ![r] = n]
         /\ last' = [last EXCEPT ![r] = lst]
         /\ UNCHANGED <<current_ratelimit, wake, answered>>
    ELSE IF IsBlocked(current_ratelimit, now)
      THEN /\ Finish(r, a, "Ratelimited", current_ratelimit - now)
           /\ ncalls' = [ncalls EXCEPT ![r] = n]
           /\ last' = [last EXCEPT ![r] = lst]
           /\ UNCHANGED <<current_ratelimit, wake, answered>>
      ELSE /\ current_ratelimit' = -1
           /\ AcquireFrom(r, a, 1, n, lst, lims)
           /\ outcome' = [outcome EXCEPT ![r] = NoOutcome]

\* A caller invokes one of the client's methods.
Request(r, a) ==
  /\ rpc[r] \in {"idle", "done"}
  /\ granted < MaxCalls
  /\ granted' = granted + 1
  /\ req' = [req EXCEPT ![r] = a]
  /\ first' = [first EXCEPT ![r] = NoAnswer]
  /\ RequestHead(r, a, 0, NoCall)
  /\ UNCHANGED <<now, limVars, hookVars, sideVars, closed, own_session, promised>>

\* A caller waiting for the lock of a limiter gets it.
Acquire(r) ==
  /\ rpc[r] = "acquire"
  /\ lims[LimitersOf(req[r].path)[li[r]]].lock = 0
  /\ AcquireFrom(r, req[r], li[r], ncalls[r], last[r], lims)
  /\ UNCHANGED <<now, limVars, hookVars, sideVars, closed, own_session, current_ratelimit, req,
                 first, outcome, promised, granted>>

\* A variant of the action below in which the caller keeps the lock.
AcquireWakeHolding(r) ==
  /\ rpc[r] = "limsleep"
  /\ now >= wake[r]
  /\ AcquireFrom(r, req[r], li[r] + 1, ncalls[r], last[r], lims)
  /\ UNCHANGED <<now, limVars, hookVars, sideVars, closed, own_session, current_ratelimit, req,
                 first, outcome, promised, granted>>

\* The sleep of __aenter__ ends: the lock is released and the caller goes on
\* to the next limiter.
AcquireWake(r) ==
  /\ rpc[r] = "limsleep"
  /\ now >= wake[r]
  /\ AcquireFrom(r, req[r], li[r] + 1, ncalls[r], last[r],
                 [lims EXCEPT ![LimitersOf(req[r].path)[li[r]]].lock = 0])
  /\ UNCHANGED <<now, limVars, hookVars, sideVars, closed, own_session, current_ratelimit, req,
                 first, outcome, promised, granted>>

\* The answer to the latest transport call is recorded in the history.
Answered(r, status, ra) ==
  /\ last' = [last EXCEPT ![r].status = status, ![r].retry_after = ra]
  /\ first' = IF ncalls[r] = 1
                THEN [first EXCEPT ![r] = [status |-> status, retry_after |-> ra]]
                ELSE first

\* A 2xx response: `return output`.
RespondOk(r) ==
  /\ rpc[r] = "inflight"
  /\ Answered(r, 200, 0)
  /\ Finish(r, req[r], "ok", 200)
  /\ UNCHANGED <<now, limVars, hookVars, sideVars, closed, own_session, current_ratelimit, req,
                 wake, ncalls, answered, promised, granted>>

\* A variant of the action below that treats the status as it treats a soft
\* 429: it sleeps and calls __request again.
RespondErrorRetried(r, status) ==
  /\ rpc[r] = "inflight"
  /\ Answered(r, status, 0)
  /\ granted < MaxCalls
  /\ granted' = granted + 1
  /\ answered' = [answered EXCEPT ![r] = now]
  /\ wake' = [wake EXCEPT ![r] = now]
  /\ rpc' = [rpc EXCEPT ![r] = "backoff"]
  /\ UNCHANGED <<now, limVars, hookVars, sideVars, closed, own_session, current_ratelimit, req,
                 ncalls, promised, outcome, li, lims, depth>>

\* A 4xx other than 429, or a 5xx: HTTPException(message, status).
RespondError(r, status) ==
  /\ rpc[r] = "inflight"
  /\ Answered(r, status, 0)
  /\ Finish(r, req[r], "HTTPException", status)
  /\ UNCHANGED <<now, limVars, hookVars, sideVars, closed, own_session, current_ratelimit, req,
                 wake, ncalls, answered, promised, granted>>

\* The transport raises (connect, DNS, timeout): not a ClientResponseError,
\* so it leaves __request as it is.
TransportFails(r) ==
  /\ rpc[r] = "inflight"
  /\ Answered(r, -1, 0)
  /\ Finish(r, req[r], "TransportError", 0)
  /\ UNCHANGED <<now, limVars, hookVars, sideVars, closed, own_session, current_ratelimit, req,
                 wake, ncalls, answered, promised, granted>>

\* A 429 (lines 203-211): above the threshold the block is recorded and
\* Ratelimited raised; otherwise the caller sleeps retry_after seconds.
Respond429(r, ra) ==
  /\ rpc[r] = "inflight"
  /\ Answered(r, 429, ra)
  /\ IF IsHard(ra)
       THEN /\ current_ratelimit' = now + ra
            /\ promised' = IF now + ra > promised THEN now + ra ELSE promised
            /\ Finish(r, req[r], "Ratelimited", ra)
            /\ UNCHANGED <<wake, answered, granted>>
       ELSE /\ granted < MaxCalls
            /\ granted' = granted + 1
            /\ answered' = [answered EXCEPT ![r] = now]
            /\ wake' = [wake EXCEPT ![r] = BackoffUntil(now, ra)]
            /\ rpc' = [rpc EXCEPT ![r] = "backoff"]
            /\ UNCHANGED <<current_ratelimit, promised, outcome,
                           li, lims, depth>>
  /\ UNCHANGED <<now, limVars, hookVars, sideVars, closed, own_session, req, ncalls>>

\* The sleep of line 209 ends and line 211 calls __request again.
Retry(r) ==
  /\ rpc[r] = "backoff"
  /\ now >= wake[r]
  /\ RequestHead(r, req[r], ncalls[r], last[r])
  /\ UNCHANGED <<now, limVars, hookVars, sideVars, closed, own_session, req, first, promised, granted>>

\* A caller waiting for a limiter's lock in __aexit__ gets it.
Release(r) ==
  /\ rpc[r] = "release"
  /\ lims[LimitersOf(req[r].path)[li[r]]].lock = 0
  /\ Leave(r, req[r], li[r])
  /\ UNCHANGED <<now, limVars, hookVars, sideVars, closed, own_session, current_ratelimit, req,
                 wake, ncalls, first, answered, last, outcome, promised, granted>>

\* The caller's task is cancelled while __aexit__ of a limiter waits for the
\* limiter's lock: CancelledError leaves the list comprehension of the
\* manager's __aexit__, so the limiters after this one are not released for
\* this block; it leaves __request through the `async with` blocks still
\* open around it, which are left in turn.
CancelRelease(r) ==
  /\ rpc[r] = "release"
  /\ outcome' = [outcome EXCEPT ![r] = [kind |-> "CancelledError", value |-> 0]]
  /\ LET u == Unwound(lims, LimitersOf(req[r].path), depth[r] - 1, 1)
     IN /\ lims' = u.lims
        /\ depth' = [depth EXCEPT ![r] = u.depth]
        /\ li' = [li EXCEPT ![r] = u.li]
        /\ rpc' = [rpc EXCEPT ![r] = IF u.depth = 0 THEN "done" ELSE "release"]
  /\ UNCHANGED <<now, limVars, hookVars, sideVars, closed, own_session, current_ratelimit, req,
                 wake, ncalls, first, answered, last, promised, granted>>

\* A variant of close() that closes whatever session the client holds.
CloseAnySession ==
  /\ IF ~is_closed THEN closed' = TRUE ELSE UNCHANGED closed
  /\ UNCHANGED <<now, limVars, hookVars, sideVars, own_session, current_ratelimit, lims, rpc, req,
                 li, depth, wake, ncalls, first, answered, last, outcome,
                 promised, granted>>

\* DBLClient.close(): closes the session it owns, once.
Close ==
  /\ IF own_session /\ ~is_closed THEN closed' = TRUE ELSE UNCHANGED closed
  /\ UNCHANGED <<now, limVars, hookVars, sideVars, own_session, current_ratelimit, lims, rpc, req,
                 li, depth, wake, ncalls, first, answered, last, outcome,
                 promised, granted>>

\* The caller that supplied the session closes it itself.
SessionClosedByOwner ==
  /\ ~own_session
  /\ ~closed
  /\ closed' = TRUE
  /\ UNCHANGED <<now, limVars, hookVars, sideVars, own_session, current_ratelimit, lims, rpc, req,
                 li, depth, wake, ncalls, first, answered, last, outcome,
                 promised, granted>>

NextClient ==
  \/ ClientTick
  \/ \E r \in Reqs, a \in Requests : Request(r, a)
  \/ \E r \in Reqs : Acquire(r)
  \/ \E r \in Reqs : AcquireWake(r)
  \/ \E r \in Reqs : RespondOk(r)
  \/ \E r \in Reqs, s \in ErrorStatuses : RespondError(r, s)
  \/ \E r \in Reqs : TransportFails(r)
  \/ \E r \in Reqs, ra \in RetryAfterValues : Respond429(r, ra)
  \/ \E r \in Reqs : Retry(r)
  \/ \E r \in Reqs : Release(r)
  \/ Close

\* One caller using a client of either kind, requests and close() calls in
\* any order.
NextSession ==
  \/ ClientTick
  \/ \E a \in Requests : Request(1, a)
  \/ AcquireWake(1)
  \/ RespondOk(1)
  \/ \E s \in ErrorStatuses : RespondError(1, s)
  \/ TransportFails(1)
  \/ \E ra \in RetryAfterValues : Respond429(1, ra)
  \/ Retry(1)
  \/ Close
  \/ SessionClosedByOwner

\* Two callers whose requests are answered 2xx, the task of one of which may
\* be cancelled while it leaves the limiters.
\* Concurrent requests, time passing for as long as some sleep has not ended.
SleepTick ==
  /\ \E d \in Deadlines : now < d
  /\ now' = now + Step
  /\ UNCHANGED <<limVars, clientVars, hookVars, sideVars>>

NextProgress ==
  \/ SleepTick
  \/ \E r \in Reqs, a \in Requests : Request(r, a)
  \/ \E r \in Reqs : Acquire(r)
  \/ \E r \in Reqs : AcquireWake(r)
  \/ \E r \in Reqs : RespondOk(r)
  \/ \E r \in Reqs : Release(r)

NextInterrupt ==
  \/ ClientTick
  \/ \E r \in Reqs, a \in Requests : Request(r, a)
  \/ \E r \in Reqs : Acquire(r)
  \/ \E r \in Reqs : AcquireWake(r)
  \/ \E r \in Reqs : RespondOk(r)
  \/ \E r \in Reqs : Release(r)
  \/ \E r \in Posting : CancelRelease(r)

\* ---- webhook routes and handlers
\* WebhookManager.endpoint(e) for an endpoint with a type, a route and a
\* callback, whose auth() was called with a, or never ("None").
Endpoint(route, a) ==
  /\ handlers[route].kind = "none"
  /\ handlers' = [handlers EXCEPT ![route] =
                    [kind |-> "WebhookManager", auth |-> EndpointAuth(a)]]
  /\ UNCHANGED <<now, limVars, clientVars, sideVars, default_auth, default_port, inflight, log,
                 lifeVars>>

\* Webhooks(auth, port): the constructor keeps the default secret and port.
NewWebhooks(d, p) ==
  /\ default_auth = "unbuilt"
  /\ default_auth' = d
  /\ default_port' = p
  /\ UNCHANGED <<now, limVars, clientVars, sideVars, handlers, inflight, log, lifeVars>>

\* Webhooks.on_vote(route, auth, callback): registers nothing when the
\* assertion `auth is not None` fails.
OnVote(route, a) ==
  /\ default_auth /= "unbuilt"
  /\ handlers[route].kind = "none"
  /\ IF AuthOr(a, default_auth) = "None"
       THEN UNCHANGED handlers
       ELSE handlers' = [handlers EXCEPT ![route] =
                           [kind |-> "Webhooks", auth |-> AuthOr(a, default_auth)]]
  /\ UNCHANGED <<now, limVars, clientVars, sideVars, default_auth, default_port, inflight, log,
                 lifeVars>>

\* The answer to a request, and what the handler did before it: whether it
\* read the body, whether it called the callback, and how the callback's work
\* stood when the answer was made: "returned" (a plain value was returned),
\* "awaited" (the awaitable was awaited to its end), "pending" (an awaitable
\* was returned and left alone) or "none" (not called, or raised).
Answer(route, h, b, status, parsed, called, completed) ==
  [route |-> route, header |-> h, body |-> b, status |-> status,
   parsed |-> parsed, called |-> called, completed |-> completed]

\* A POST reaches a route of a listening server: the handler answers 401 or
\* goes on to `await request.json()`.
Post(route, h, b) ==
  /\ handlers[route].kind /= "none"
  /\ Listening(handlers[route].kind)
  /\ inflight[route].pc = "idle"
  /\ Len(log) + Cardinality({r \in Routes : inflight[r].pc /= "idle"}) < MaxPosts
  /\ IF Unauthorized(h, handlers[route].auth)
       THEN /\ log' = Append(log, Answer(route, h, b, 401, FALSE, FALSE, "none"))
            /\ UNCHANGED inflight
       ELSE /\ inflight' = [inflight EXCEPT ![route] =
                              [pc |-> "json", header |-> h, body |-> b]]
            /\ UNCHANGED log
  /\ UNCHANGED <<now, limVars, clientVars, sideVars, default_auth, default_port, handlers,
                 lifeVars>>

\* request.json() returns or raises; the vote is built from the data (or
\* raises), and the callback is called with it.  An exception leaving the
\* handler is answered 500 by the server.
BodyRead(route) ==
  /\ inflight[route].pc = "json"
  /\ IF EventOf(handlers[route].kind, inflight[route].body) = "Vote"
       THEN /\ inflight' = [inflight EXCEPT ![route].pc = "callback"]
            /\ UNCHANGED log
       ELSE /\ log' = Append(log, Answer(route, inflight[route].header,
                                         inflight[route].body, 500, TRUE, FALSE, "none"))
            /\ inflight' = [inflight EXCEPT ![route] = Idle]
  /\ UNCHANGED <<now, limVars, clientVars, sideVars, default_auth, default_port, handlers,
                 lifeVars>>

\* The callback returns res.  An awaitable is awaited; after a plain value
\* the handler answers 204.
CallbackReturns(route, res) ==
  /\ inflight[route].pc = "callback"
  /\ IF isawaitable(res)
       THEN /\ inflight' = [inflight EXCEPT ![route].pc = "await"]
            /\ UNCHANGED log
       ELSE /\ log' = Append(log, Answer(route, inflight[route].header,
                                         inflight[route].body, 204, TRUE, TRUE,
                                         IF res = "value" THEN "returned"
                                                          ELSE "pending"))
            /\ inflight' = [inflight EXCEPT ![route] = Idle]
  /\ UNCHANGED <<now, limVars, clientVars, sideVars, default_auth, default_port, handlers,
                 lifeVars>>

\* The awaitable of an asynchronous callback completes: 204.
AwaitCompletes(route) ==
  /\ inflight[route].pc = "await"
  /\ log' = Append(log, Answer(route, inflight[route].header, inflight[route].body,
                               204, TRUE, TRUE, "awaited"))
  /\ inflight' = [inflight EXCEPT ![route] = Idle]
  /\ UNCHANGED <<now, limVars, clientVars, sideVars, default_auth, default_port, handlers,
                 lifeVars>>

\* A variant of the action below in which the exception stops the server.
CallbackRaisesFatal(route) ==
  /\ inflight[route].pc \in {"callback", "await"}
  /\ log' = Append(log, Answer(route, inflight[route].header, inflight[route].body,
                               500, TRUE, TRUE, "none"))
  /\ inflight' = [inflight EXCEPT ![route] = Idle]
  /\ listeners' = [listeners EXCEPT ![handlers[route].kind] = {}]
  /\ running' = (running /\ handlers[route].kind /= "Webhooks")
  /\ is_running' = (is_running /\ handlers[route].kind /= "WebhookManager")
  /\ UNCHANGED <<now, limVars, clientVars, sideVars, default_auth, default_port, handlers,
                 webserver, raised>>

\* The callback raises, or the awaitable it returned does: the exception
\* leaves the handler, and the server answers 500.
CallbackRaises(route) ==
  /\ inflight[route].pc \in {"callback", "await"}
  /\ log' = Append(log, Answer(route, inflight[route].header, inflight[route].body,
                               500, TRUE, TRUE, "none"))
  /\ inflight' = [inflight EXCEPT ![route] = Idle]
  /\ UNCHANGED <<now, limVars, clientVars, sideVars, default_auth, default_port, handlers,
                 lifeVars>>

\* ---- the servers' start() and close(), called one after the other
\* A variant of Webhooks.start that does not look at `running`.
StartWebhooksUnguarded(p) ==
  /\ default_auth /= "unbuilt"
  /\ IF PortOr(p, default_port) = NoPort
       THEN /\ raised' = "AssertionError"
            /\ UNCHANGED <<running, listeners>>
       ELSE IF PortOr(p, default_port) \in Bound
         THEN /\ raised' = "OSError"
              /\ UNCHANGED <<running, listeners>>
         ELSE /\ listeners' = [listeners EXCEPT
                                 !["Webhooks"] = @ \cup {PortOr(p, default_port)}]
              /\ running' = TRUE
              /\ raised' = "none"
  /\ UNCHANGED <<now, limVars, clientVars, sideVars, default_auth, default_port, handlers,
                 inflight, log, is_running, webserver>>

\* Webhooks.start(port), p = NoPort for start().  `assert port is not None`
\* raises AssertionError; TCPSite.start() raises OSError when the port is
\* taken, before __running is set.
StartWebhooks(p) ==
  /\ default_auth /= "unbuilt"
  /\ IF ~running
       THEN IF PortOr(p, default_port) = NoPort
              THEN /\ raised' = "AssertionError"
                   /\ UNCHANGED <<running, listeners>>
              ELSE IF PortOr(p, default_port) \in Bound
                THEN /\ raised' = "OSError"
                     /\ UNCHANGED <<running, listeners>>
                ELSE /\ listeners' = [listeners EXCEPT
                                        !["Webhooks"] = {PortOr(p, default_port)}]
                     /\ running' = TRUE
                     /\ raised' = "none"
       ELSE /\ raised' = "none"
            /\ UNCHANGED <<running, listeners>>
  /\ UNCHANGED <<now, limVars, clientVars, sideVars, default_auth, default_port, handlers,
                 inflight, log, is_running, webserver>>

\* Webhooks.close()
CloseWebhooks ==
  /\ default_auth /= "unbuilt"
  /\ IF running
       THEN /\ listeners' = [listeners EXCEPT !["Webhooks"] = {}]
            /\ running' = FALSE
       ELSE UNCHANGED <<running, listeners>>
  /\ raised' = "none"
  /\ UNCHANGED <<now, limVars, clientVars, sideVars, default_auth, default_port, handlers,
                 inflight, log, is_running, webserver>>

\* WebhookManager.start(port): a new runner and a new site at every call.
\* The site is kept in _webserver before it is started; when the port is
\* taken its start() raises OSError and _is_running is left as it was.
StartManager(p) ==
  /\ IF p \in Bound
       THEN /\ webserver' = [port |-> p, state |-> "failed"]
            /\ raised' = "OSError"
            /\ UNCHANGED <<is_running, listeners>>
       ELSE /\ webserver' = [port |-> p, state |-> "started"]
            /\ listeners' = [listeners EXCEPT !["WebhookManager"] = @ \cup {p}]
            /\ is_running' = TRUE
            /\ raised' = "none"
  /\ UNCHANGED <<now, limVars, clientVars, sideVars, default_auth, default_port, handlers,
                 inflight, log, running>>

\* WebhookManager.close(): await self._webserver.stop().  Reading the unset
\* slot raises AttributeError; stopping a site that was stopped before raises
\* RuntimeError (the site is no longer registered in its runner); a site
\* whose start() failed is registered and stops without an error.
CloseManager ==
  /\ CASE webserver.state = "unset" ->
            /\ raised' = "AttributeError"
            /\ UNCHANGED <<is_running, listeners, webserver>>
       [] webserver.state = "stopped" ->
            /\ raised' = "RuntimeError"
            /\ UNCHANGED <<is_running, listeners, webserver>>
       [] webserver.state = "failed" ->
            /\ webserver' = [webserver EXCEPT !.state = "stopped"]
            /\ is_running' = FALSE
            /\ raised' = "none"
            /\ UNCHANGED listeners
       [] webserver.state = "started" ->
            /\ webserver' = [webserver EXCEPT !.state = "stopped"]
            /\ listeners' = [listeners EXCEPT
                               !["WebhookManager"] = @ \ {webserver.port}]
            /\ is_running' = FALSE
            /\ raised' = "none"
  /\ UNCHANGED <<now, limVars, clientVars, sideVars, default_auth, default_port, handlers,
                 inflight, log, running>>

\* Requests to routes of servers that are started once, each on a port of
\* its own.
NextWebhook ==
  \/ \E d \in Secrets \cup {"None"} : NewWebhooks(d, NoPort)
  \/ \E route \in Routes, a \in Secrets \cup {"None"} : Endpoint(route, a)
  \/ \E route \in Routes, a \in Secrets \cup {"None"} : OnVote(route, a)
  \/ \E p \in WebhooksPorts : ~running /\ StartWebhooks(p)
  \/ \E p \in ManagerPorts : ~is_running /\ StartManager(p)
  \/ \E route \in Routes, h \in Headers, b \in Bodies : Post(route, h, b)
  \/ \E route \in Routes : BodyRead(route)
  \/ \E route \in Routes, res \in Returned : CallbackReturns(route, res)
  \/ \E route \in Routes : AwaitCompletes(route)
  \/ \E route \in Routes : CallbackRaises(route)

\* start() and close() of both servers in any order, on any of the ports.
NextLifecycle ==
  \/ \E p \in Ports \cup {NoPort} : NewWebhooks("youshallnotpass", p)
  \/ \E p \in Ports \cup {NoPort} : StartWebhooks(p)
  \/ CloseWebhooks
  \/ \E p \in Ports : StartManager(p)
  \/ CloseManager

\* ---- setting up an endpoint of WebhookManager
\* WebhookManager.endpoint(): a new BoundWebhookEndpoint
NewEndpoint ==
  /\ endpoint' = NoEndpoint
  /\ refused' = "none"
  /\ UNCHANGED <<now, limVars, clientVars, hookVars, posterVars, dataVars, httpVars>>

\* WebhookEndpoint.type(type_)
WithType(type_) ==
  /\ endpoint' = [endpoint EXCEPT !.type = type_]
  /\ UNCHANGED <<now, limVars, clientVars, hookVars, posterVars, dataVars, httpVars, refused>>

\* WebhookEndpoint.route(route_)
WithRoute(route_) ==
  /\ endpoint' = [endpoint EXCEPT !.route = route_]
  /\ UNCHANGED <<now, limVars, clientVars, hookVars, posterVars, dataVars, httpVars, refused>>

\* WebhookEndpoint.auth(auth_)
WithAuth(auth_) ==
  /\ endpoint' = [endpoint EXCEPT !.auth = auth_]
  /\ UNCHANGED <<now, limVars, clientVars, hookVars, posterVars, dataVars, httpVars, refused>>

\* WebhookEndpoint.callback(callback_)
WithCallback ==
  /\ endpoint' = [endpoint EXCEPT !.callback = TRUE]
  /\ UNCHANGED <<now, limVars, clientVars, hookVars, posterVars, dataVars, httpVars, refused>>

\* BoundWebhookEndpoint.add_to_manager(), WebhookManager.endpoint(endpoint_):
\* the checks, then router.add_post of a route the router does not have.
AddToManager ==
  /\ IF EndpointError(endpoint) /= "none"
       THEN /\ refused' = EndpointError(endpoint)
            /\ UNCHANGED handlers
       ELSE /\ handlers[endpoint.route].kind = "none"
            /\ handlers' = [handlers EXCEPT ![endpoint.route] =
                              [kind |-> "WebhookManager", auth |-> endpoint.auth]]
            /\ refused' = "none"
  /\ UNCHANGED <<now, limVars, clientVars, posterVars, dataVars, httpVars, default_auth,
                 default_port, inflight, log, lifeVars, endpoint>>

NextEndpoint ==
  \/ NewEndpoint
  \/ \E type_ \in WebhookType : WithType(type_)
  \/ \E route_ \in Routes : WithRoute(route_)
  \/ \E auth_ \in Secrets : WithAuth(auth_)
  \/ WithCallback
  \/ AddToManager

\* ---- the data container
\* A variant of set_data that overrides whatever it is told.
SetDataOverriding(x, override) ==
  /\ lookup_cache' = [sup \in Types |->
                        IF sup \in Supers(x.type) /\ lookup_cache[sup] /= Unset
                          THEN x
                          ELSE lookup_cache[sup]]
  /\ data' = [data EXCEPT ![x.type] = x.id]
  /\ result' = [raised |-> "none", value |-> Unset]
  /\ UNCHANGED <<now, limVars, clientVars, hookVars, posterVars, builderVars, httpVars>>

\* DataContainerMixin.set_data(x, override=override)
SetData(x, override) ==
  /\ IF ~override /\ data[x.type] /= 0
       THEN /\ result' = [raised |-> "TopGGException", value |-> Unset]
            /\ UNCHANGED <<data, lookup_cache>>
       ELSE /\ lookup_cache' = [sup \in Types |->
                                  IF sup \in Supers(x.type) /\ lookup_cache[sup] /= Unset
                                    THEN x
                                    ELSE lookup_cache[sup]]
            /\ data' = [data EXCEPT ![x.type] = x.id]
            /\ result' = [raised |-> "none", value |-> Unset]
  /\ UNCHANGED <<now, limVars, clientVars, hookVars, posterVars, builderVars, httpVars>>

\* DataContainerMixin.get_data(type_): _get_data keeps what a subclass
\* resolved in the lookup cache; LookupError becomes the default.
GetData(type_) ==
  /\ LET found == ResolveData(data, lookup_cache, type_)
     IN /\ lookup_cache' = IF found.is_subclass
                              THEN [lookup_cache EXCEPT ![type_] = found.data]
                              ELSE lookup_cache
        /\ result' = [raised |-> "none", value |-> found.data]
  /\ UNCHANGED <<now, limVars, clientVars, hookVars, posterVars, builderVars, httpVars, data>>

NextData ==
  \/ \E x \in Instances, override \in BOOLEAN : SetData(x, override)
  \/ \E type_ \in Types : GetData(type_)

\* ---- the autoposter's methods and its loop
\* AutoPoster.stats(callback)
Stats ==
  /\ has_stats' = TRUE
  /\ thrown' = "none"
  /\ UNCHANGED <<now, limVars, clientVars, hookVars, dataVars, builderVars, httpVars, interval, has_success,
                 task, stopping, loops>>

\* AutoPoster.on_success(callback)
OnSuccess ==
  /\ has_success' = TRUE
  /\ thrown' = "none"
  /\ UNCHANGED <<now, limVars, clientVars, hookVars, dataVars, builderVars, httpVars, interval, has_stats,
                 task, stopping, loops>>

\* AutoPoster.set_interval(seconds), and assignment to `interval`
SetInterval(x) ==
  /\ IF TooShort(SecondsOf(x))
       THEN /\ thrown' = "ValueError"
            /\ UNCHANGED interval
       ELSE /\ interval' = SecondsOf(x)
            /\ thrown' = "none"
  /\ UNCHANGED <<now, limVars, clientVars, hookVars, dataVars, builderVars, httpVars, has_stats, has_success,
                 task, stopping, loops>>

\* The task asyncio.ensure_future makes next.
Fresh == {t \in LoopTasks : loops[t].pc = "unborn"}
NextTask == CHOOSE t \in Fresh : \A u \in Fresh : t <= u

\* A variant of start() that does not look at is_running.
StartUnchecked ==
  /\ IF ~has_stats
       THEN /\ thrown' = "TopGGException"
            /\ UNCHANGED <<task, loops>>
       ELSE /\ Fresh /= {}
            /\ loops' = [loops EXCEPT ![NextTask].pc = "ready"]
            /\ task' = NextTask
            /\ thrown' = "none"
  /\ UNCHANGED <<now, limVars, clientVars, hookVars, dataVars, builderVars, httpVars, interval, has_stats,
                 has_success, stopping>>

\* AutoPoster.start()
Start ==
  /\ IF ~has_stats \/ is_running_poster
       THEN /\ thrown' = "TopGGException"
            /\ UNCHANGED <<task, loops>>
       ELSE /\ Fresh /= {}
            /\ loops' = [loops EXCEPT ![NextTask].pc = "ready"]
            /\ task' = NextTask
            /\ thrown' = "none"
  /\ UNCHANGED <<now, limVars, clientVars, hookVars, dataVars, builderVars, httpVars, interval, has_stats,
                 has_success, stopping>>

\* The positions of the loop between the start of a post and the test of
\* _stopping that follows it.
InPost == {"post", "on_error", "on_success"}

\* AutoPoster.stop().  History: the posts the running loop may still begin
\* are fixed, the one under way or else the next one.
Stop ==
  /\ IF is_running_poster
       THEN /\ stopping' = TRUE
            /\ loops' = [loops EXCEPT ![task].allowed =
                           IF @ /= -1 THEN @
                           ELSE loops[task].started
                                  + (IF loops[task].pc \in InPost THEN 0 ELSE 1)]
       ELSE UNCHANGED <<stopping, loops>>
  /\ thrown' = "none"
  /\ UNCHANGED <<now, limVars, clientVars, hookVars, dataVars, builderVars, httpVars, interval, has_stats,
                 has_success, task>>

\* A variant of cancel() that asks the loop to stop.
CancelByStopping ==
  /\ IF task = 0
       THEN UNCHANGED stopping
       ELSE stopping' = TRUE
  /\ thrown' = "none"
  /\ UNCHANGED <<now, limVars, clientVars, hookVars, dataVars, builderVars, httpVars, interval, has_stats,
                 has_success, task, loops>>

\* AutoPoster.cancel(): self._task.cancel(); self._refresh_state()
Cancel ==
  /\ IF task = 0
       THEN UNCHANGED <<task, stopping, loops>>
       ELSE /\ loops' = [loops EXCEPT ![task].must_cancel = ~Done(task)]
            /\ task' = 0
            /\ stopping' = FALSE
  /\ thrown' = "none"
  /\ UNCHANGED <<now, limVars, clientVars, hookVars, dataVars, builderVars, httpVars, interval, has_stats,
                 has_success>>

\* The coroutine of loop t ends, l being the record of the loop then:
\* `finally: self._refresh_state()`
Ends(t, l, how) ==
  /\ loops' = [loops EXCEPT ![t] = [l EXCEPT !.pc = "finished", !.ended = how]]
  /\ task' = 0
  /\ stopping' = FALSE

\* `if self._stopping: return`, else the sleep between two posts
AfterPost(t, l) ==
  IF stopping
    THEN Ends(t, l, "returned")
    ELSE /\ loops' = [loops EXCEPT ![t] = [l EXCEPT !.pc = "sleep"]]
         /\ UNCHANGED <<task, stopping>>

\* The loop begins an iteration (the task runs first, or its sleep is over):
\* the stats callback returns and post_guild_count is called.
Iterate(t) ==
  /\ loops[t].pc \in {"ready", "sleep"}
  /\ ~loops[t].must_cancel
  /\ loops[t].started < MaxLoopPosts
  /\ loops' = [loops EXCEPT ![t] =
                 [@ EXCEPT !.pc = "post", !.started = @ + 1, !.err = "none",
                           !.outcome = "pending", !.errors = 0, !.successes = 0]]
  /\ UNCHANGED <<now, limVars, clientVars, hookVars, dataVars, builderVars, httpVars, interval, has_stats,
                 has_success, task, stopping, thrown>>

\* The stats callback raises: the exception leaves the loop.
StatsRaises(t) ==
  /\ loops[t].pc \in {"ready", "sleep"}
  /\ ~loops[t].must_cancel
  /\ Ends(t, loops[t], "Exception")
  /\ UNCHANGED <<now, limVars, clientVars, hookVars, dataVars, builderVars, httpVars, interval, has_stats,
                 has_success, thrown>>

\* A variant of the action below that invokes the error callback as well.
PostSucceedsLoudly(t) ==
  /\ loops[t].pc = "post"
  /\ ~loops[t].must_cancel
  /\ loops' = [loops EXCEPT ![t] =
                 [@ EXCEPT !.pc = "on_success", !.outcome = "ok",
                           !.successes = @ + 1, !.errors = @ + 1]]
  /\ UNCHANGED <<now, limVars, clientVars, hookVars, dataVars, builderVars, httpVars, interval, has_stats,
                 has_success, task, stopping, thrown>>

\* post_guild_count returns: the success callback, if there is one, is
\* invoked.
PostSucceeds(t) ==
  /\ loops[t].pc = "post"
  /\ ~loops[t].must_cancel
  /\ IF has_success
       THEN /\ loops' = [loops EXCEPT ![t] =
                           [@ EXCEPT !.pc = "on_success", !.outcome = "ok",
                                     !.successes = @ + 1]]
            /\ UNCHANGED <<task, stopping>>
       ELSE AfterPost(t, [loops[t] EXCEPT !.outcome = "ok"])
  /\ UNCHANGED <<now, limVars, clientVars, hookVars, dataVars, builderVars, httpVars, interval, has_stats,
                 has_success, thrown>>

\* post_guild_count raises err: the error callback is invoked with it.
PostFails(t, err) ==
  /\ loops[t].pc = "post"
  /\ ~loops[t].must_cancel
  /\ loops' = [loops EXCEPT ![t] =
                 [@ EXCEPT !.pc = "on_error", !.outcome = "failed", !.err = err,
                           !.errors = @ + 1]]
  /\ UNCHANGED <<now, limVars, clientVars, hookVars, dataVars, builderVars, httpVars, interval, has_stats,
                 has_success, task, stopping, thrown>>

\* The callback invoked after the post returns: the error of a post that
\* was refused with 401 is raised again, and leaves the loop.
HandlerReturns(t) ==
  /\ loops[t].pc \in {"on_error", "on_success"}
  /\ ~loops[t].must_cancel
  /\ IF loops[t].pc = "on_error" /\ IsUnauthorized(loops[t].err)
       THEN Ends(t, loops[t], loops[t].err)
       ELSE AfterPost(t, loops[t])
  /\ UNCHANGED <<now, limVars, clientVars, hookVars, dataVars, builderVars, httpVars, interval, has_stats,
                 has_success, thrown>>

\* The callback invoked after the post raises: the exception leaves the
\* loop.
HandlerRaises(t) ==
  /\ loops[t].pc \in {"on_error", "on_success"}
  /\ ~loops[t].must_cancel
  /\ Ends(t, loops[t], "Exception")
  /\ UNCHANGED <<now, limVars, clientVars, hookVars, dataVars, builderVars, httpVars, interval, has_stats,
                 has_success, thrown>>

\* The event loop runs the task cancel() was called on: CancelledError is
\* raised where the coroutine is suspended, and is no Exception for the loop
\* to catch.  A coroutine that had not run yet never enters its `try`.
Cancelled(t) ==
  /\ loops[t].must_cancel
  /\ loops[t].pc \in {"ready", "sleep"} \cup InPost
  /\ IF loops[t].pc = "ready"
       THEN /\ loops' = [loops EXCEPT ![t].pc = "finished", ![t].ended = "cancelled"]
            /\ UNCHANGED <<task, stopping>>
       ELSE Ends(t, loops[t], "cancelled")
  /\ UNCHANGED <<now, limVars, clientVars, hookVars, dataVars, builderVars, httpVars, interval, has_stats,
                 has_success, thrown>>

\* AutoPoster._fut_done_callback, called by the event loop once the task is
\* done: self._refresh_state()
DoneCallback(t) ==
  /\ loops[t].pc = "finished"
  /\ loops' = [loops EXCEPT ![t].pc = "done"]
  /\ task' = 0
  /\ stopping' = FALSE
  /\ UNCHANGED <<now, limVars, clientVars, hookVars, dataVars, builderVars, httpVars, interval, has_stats,
                 has_success, thrown>>

NextPoster ==
  \/ Stats
  \/ OnSuccess
  \/ Start
  \/ Stop
  \/ Cancel
  \/ \E t \in LoopTasks : Iterate(t)
  \/ \E t \in LoopTasks : StatsRaises(t)
  \/ \E t \in LoopTasks : PostSucceeds(t)
  \/ \E t \in LoopTasks, err \in PostErrors : PostFails(t, err)
  \/ \E t \in LoopTasks : HandlerReturns(t)
  \/ \E t \in LoopTasks : HandlerRaises(t)
  \/ \E t \in LoopTasks : Cancelled(t)
  \/ \E t \in LoopTasks : DoneCallback(t)

\* The autoposter's configuration, and its start and cancellation.
NextInterval ==
  \/ Stats
  \/ OnSuccess
  \/ \E x \in Seconds : SetInterval(x)
  \/ Start
  \/ Cancel
  \/ \E t \in LoopTasks : Cancelled(t)
  \/ \E t \in LoopTasks : DoneCallback(t)

\* -------------------------------------------------------- specifications
SpecLimiter == Init /\ [][NextLimiter]_vars
SpecSequential == Init /\ [][NextSequential]_vars
SpecClient == Init /\ [][NextClient]_vars
SpecWebhook == Init /\ [][NextWebhook]_vars
SpecSession == InitSession /\ [][NextSession]_vars
SpecLifecycle == Init /\ [][NextLifecycle]_vars
SpecEndpoint == Init /\ [][NextEndpoint]_vars
SpecInterrupt == InitAnswered /\ [][NextInterrupt]_vars
SpecHTTP == Init /\ [][NextHTTP]_vars

\* Every sleep is finite, and the event loop runs every task that can run:
\* asyncio.Lock wakes its waiters in turn.
SpecProgress ==
  /\ InitAnswered
  /\ [][NextProgress]_vars
  /\ WF_vars(SleepTick)
  /\ \A r \in Reqs : WF_vars(Acquire(r)) /\ WF_vars(AcquireWake(r))
SpecData == Init /\ [][NextData]_vars
SpecPoster == Init /\ [][NextPoster]_vars
SpecInterval == Init /\ [][NextInterval]_vars
\* Time passes and a sleep that is over returns.
SpecCancel ==
  /\ Init
  /\ [][NextCancel]_vars
  /\ WF_vars(Tick)
  /\ \A t \in Tasks : WF_vars(Wake(t))

\* ---------------------------------------------------------------- claims

\* The number of admissions inside the interval [s, s + period).
AdmittedIn(s) ==
  Cardinality({i \in 1..Len(admits) : admits[i].at >= s /\ admits[i].at < s + period})

\* C1: in every interval of length period at most max_calls operations are
\* admitted by one limiter shared by concurrent tasks.
C1_AtMostNPerPeriod ==
  \A s \in Times : AdmittedIn(s) <= max_calls

\* C7: the window never holds more than max_calls timestamps, whatever the
\* interleaving of the tasks.
C7_WindowBounded ==
  Len(calls) <= max_calls

\* C8: after every completed release, newest - oldest < period.
C8_SpanBelowPeriod ==
  Len(calls) > 0 => Timespan(calls) < period

\* A release that evicted, leaving timestamps of different instants.
C8_Witness ==
  /\ evictions > 0
  /\ Len(calls) >= 2
  /\ Timespan(calls) > 0

\* C6: used sequentially, none of the first max_calls acquisitions suspends,
\* and the acquisition after them returns no earlier than period seconds after
\* the oldest recorded call; so does every acquisition that suspended, measured
\* from the oldest timestamp of the window it found full.
C6_SequentialAcquire ==
  /\ \A i \in 1..Len(admits) : i <= max_calls => ~admits[i].slept
  /\ (\E t \in Tasks : lpc[t] = "sleep") => Len(admits) >= max_calls
  /\ Len(admits) > max_calls => admits[max_calls + 1].at >= rels[1] + period
  /\ \A i \in 1..Len(admits) :
       admits[i].slept => admits[i].at >= admits[i].oldest + period

\* max_calls cycles with no delay between them, then one that suspended.
C6_Witness ==
  /\ Len(admits) > max_calls
  /\ rels[max_calls] = rels[1]
  /\ admits[max_calls + 1].slept

\* C2: once a hard block has been recorded with Retry-After R at instant t,
\* every request issued on the open client before t + R fails with Ratelimited
\* carrying a positive remaining time, and makes no transport call.
C2_BlockedRequestsFailFast ==
  [][\A r \in Reqs, a \in Requests :
       (Request(r, a) /\ ~closed /\ now < promised)
         => /\ outcome'[r].kind = "Ratelimited"
            /\ outcome'[r].value > 0
            /\ ncalls'[r] = 0]_vars

\* C3: one request makes at most two transport calls.
C3_AtMostTwoCalls ==
  \A r \in Reqs : ncalls[r] <= 2

\* C4: the transport call of a retry carries the method, path, params and body
\* of the original call.
C4_RetryCarriesSame ==
  \A r \in Reqs : ncalls[r] >= 2 => last[r].args = req[r]

\* C9: when the first call is answered 429 with a Retry-After not above the
\* threshold and the next call 2xx, the request returns the success result
\* after exactly two transport calls, the second made at least Retry-After
\* seconds after the first was answered.
C9_SoftRetrySucceeds ==
  \A r \in Reqs :
    (/\ ncalls[r] = 2
     /\ first[r].status = 429
     /\ last[r].status = 200)
      => /\ outcome[r] = [kind |-> "ok", value |-> 200]
         /\ rpc[r] \in {"release", "done"}
         /\ last[r].waited >= first[r].retry_after

\* A request that slept through a Retry-After at the threshold and succeeded.
C9_Witness ==
  \E r \in Reqs :
    /\ ncalls[r] = 2
    /\ first[r] = [status |-> 429, retry_after |-> MAXIMUM_DELAY_THRESHOLD]
    /\ last[r].status = 200
    /\ rpc[r] = "done"

\* C10: a 429 whose Retry-After is above MAXIMUM_DELAY_THRESHOLD sets the
\* blocked-until instant to now + Retry-After and raises Ratelimited(Retry-After)
\* with no sleep and no further transport call; a 429 whose Retry-After is not
\* above it leaves the blocked-until instant as it was.
C10_HardBlockRecorded ==
  [][\A r \in Reqs :
       (rpc[r] = "inflight" /\ last'[r].status = 429)
         => IF last'[r].retry_after > MAXIMUM_DELAY_THRESHOLD
              THEN /\ current_ratelimit' = now + last'[r].retry_after
                   /\ outcome'[r] = [kind |-> "Ratelimited",
                                     value |-> last'[r].retry_after]
                   /\ rpc'[r] \in {"release", "done"}
                   /\ ncalls'[r] = ncalls[r]
                   /\ now' = now
              ELSE /\ current_ratelimit' = current_ratelimit
                   /\ outcome'[r] = NoOutcome]_vars

\* A hard block just recorded, on a client one of whose requests was
\* answered 429 with Retry-After at the threshold.
C10_Witness ==
  \E r, q \in Reqs :
    /\ last[r].status = 429
    /\ last[r].retry_after > MAXIMUM_DELAY_THRESHOLD
    /\ outcome[r] = [kind |-> "Ratelimited", value |-> last[r].retry_after]
    /\ current_ratelimit = now + last[r].retry_after
    /\ first[q] = [status |-> 429, retry_after |-> MAXIMUM_DELAY_THRESHOLD]

\* C5: on every registered route, a POST whose Authorization header is absent
\* or differs from the route's secret is answered 401, its body is not parsed
\* and the callback is not invoked.
C5_UnauthorizedRejected ==
  /\ \A i \in 1..Len(log) :
       (log[i].header = "absent" \/ log[i].header /= handlers[log[i].route].auth)
         => /\ log[i].status = 401
            /\ ~log[i].parsed
            /\ ~log[i].called
  /\ \A route \in Routes :
       inflight[route].pc /= "idle"
         => /\ inflight[route].header /= "absent"
            /\ inflight[route].header = handlers[route].auth

\* C11: on a closed session every request fails at once with
\* ClientStateException and makes no transport call, and so does the retry of
\* a request that was sleeping when the session closed.
C11_ClosedClientFails ==
  [][\A r \in Reqs :
       /\ \A a \in Requests :
            (Request(r, a) /\ closed)
              => /\ outcome'[r] = [kind |-> "ClientStateException", value |-> 0]
                 /\ ncalls'[r] = 0
                 /\ rpc'[r] = "done"
       /\ (Retry(r) /\ closed)
            => /\ outcome'[r] = [kind |-> "ClientStateException", value |-> 0]
               /\ ncalls'[r] = ncalls[r]
               /\ rpc'[r] \in {"release", "done"}]_vars

\* A request refused on the closed client.
C11_Witness ==
  /\ closed
  /\ \E r \in Reqs :
       /\ outcome[r].kind = "ClientStateException"
       /\ ncalls[r] = 0
       /\ rpc[r] = "done"

C13_TransportErrorIsLibraryError ==
  \A r \in Reqs :
    last[r].status = -1
      => /\ rpc[r] \in {"release", "done"}
         /\ outcome[r].kind \in LibraryErrors

\* C14: close() closes the session exactly when the client owns it and it is
\* not closed yet, and nothing else the client does closes it: a supplied
\* session is closed by its supplier only.
C14_CloseOwnedOnly ==
  [][/\ Close => closed' = (closed \/ own_session)
     /\ closed' /= closed => (Close /\ own_session) \/ SessionClosedByOwner]_vars

\* An owning client closed after a request of it had gone through.
C14_Witness ==
  /\ closed
  /\ own_session
  /\ outcome[1].kind = "ok"

\* The answer log[i] is to a request that carried the secret of its route.
Authorized(i) ==
  /\ log[i].header /= "absent"
  /\ log[i].header = handlers[log[i].route].auth

\* C15: a POST to a registered route whose Authorization header equals the
\* route's secret and whose body is the JSON of a vote has the callback
\* invoked with the vote and is answered 200 or 204.
C15_ValidVoteDelivered ==
  \A i \in 1..Len(log) :
    (Authorized(i) /\ log[i].body = "vote")
      => /\ log[i].called
         /\ log[i].status \in {200, 204}

\* C16: a request that passes the Authorization test and whose body is not
\* JSON, or is JSON no vote can be built from, never has the callback invoked
\* and is not answered 200 or 204.
C16_MalformedBodyRejected ==
  /\ \A i \in 1..Len(log) :
       (~Unauthorized(log[i].header, handlers[log[i].route].auth)
          /\ log[i].body /= "vote")
         => /\ ~log[i].called
            /\ log[i].status \notin {200, 204}
  /\ \A route \in Routes :
       inflight[route].pc \in {"callback", "await"} => inflight[route].body = "vote"

\* Both kinds of malformed body, sent with the right secret and answered 500.
C16_Witness ==
  \E i, j \in 1..Len(log) :
    /\ Authorized(i) /\ log[i].body = "notjson" /\ log[i].status = 500
    /\ Authorized(j) /\ log[j].body = "novote" /\ log[j].status = 500
    /\ handlers[log[j].route].kind = "Webhooks"

\* The callback of the request answered by log[i] raised.
Raised(i) == log[i].called /\ log[i].status = 500

\* C17: a callback that raises leaves the server listening and its routes
\* registered, and every later request with the right secret and a vote to a
\* route of that server has its callback invoked and, unless that call raises
\* as well, is answered 204.
C17_RaisingCallbackIsolated ==
  /\ [][\A route \in Routes :
          CallbackRaises(route)
            => /\ Listening(handlers[route].kind)'
               /\ running' = running
               /\ is_running' = is_running
               /\ handlers' = handlers]_vars
  /\ [](\A i, j \in 1..Len(log) :
          (/\ i < j
           /\ Raised(i)
           /\ handlers[log[j].route].kind = handlers[log[i].route].kind
           /\ Authorized(j)
           /\ log[j].body = "vote")
            => /\ log[j].called
               /\ Raised(j) \/ log[j].status = 204)

\* A callback raised, and then a vote sent to the other route was delivered
\* and answered 204 by the server, still running.
C17_Witness ==
  /\ Len(log) = 2
  /\ Raised(1)
  /\ log[2].route /= log[1].route
  /\ Authorized(2)
  /\ log[2].called
  /\ log[2].status = 204
  /\ running

\* C18: an answer 200 or 204 is made only after the callback was called and
\* completed: it returned a plain value, or the awaitable it returned was
\* awaited to its end.
C18_AnswerAfterCallback ==
  \A i \in 1..Len(log) :
    log[i].status \in {200, 204}
      => /\ log[i].called
         /\ log[i].completed \in {"returned", "awaited"}

\* One vote answered after a synchronous callback returned, one after the
\* awaitable of an asynchronous callback completed.
C18_Witness ==
  \E i, j \in 1..Len(log) :
    /\ log[i].status = 204 /\ log[i].completed = "returned"
    /\ log[j].status = 204 /\ log[j].completed = "awaited"

\* C19: the Webhooks server is running exactly while its one listener is
\* bound.  start() while running and close() while stopped change nothing
\* and raise nothing; `running` becomes true only by a start() that raised
\* nothing, and every such start() of a stopped server makes it true; it
\* becomes false only by close(), and every close() leaves it false and
\* raises nothing.
C19_WebhooksLifecycle ==
  /\ [](/\ running <=> listeners["Webhooks"] /= {}
        /\ Cardinality(listeners["Webhooks"]) <= 1)
  /\ [][/\ \A p \in Ports \cup {NoPort} :
             /\ (StartWebhooks(p) /\ running)
                  => /\ running'
                     /\ listeners' = listeners
                     /\ raised' = "none"
             /\ (StartWebhooks(p) /\ ~running /\ raised' = "none") => running'
        /\ CloseWebhooks
             => /\ ~running'
                /\ raised' = "none"
                /\ ~running => listeners' = listeners
        /\ (~running /\ running')
             => /\ raised' = "none"
                /\ \E p \in Ports \cup {NoPort} : StartWebhooks(p)
        /\ (running /\ ~running') => CloseWebhooks]_vars

\* The server running on a port given to start() in place of the default
\* one, after start() and close() calls of the other server.
C19_Witness ==
  /\ running
  /\ default_port /= NoPort
  /\ listeners["Webhooks"] /= {default_port}
  /\ webserver.state = "stopped"

\* C20: WebhookManager.start(port) while is_running is true creates no site
\* and no listener and changes nothing, and close() while the manager is
\* stopped changes nothing and raises nothing.
C20_ManagerLifecycleNoOps ==
  [][/\ \A p \in Ports :
          (StartManager(p) /\ is_running)
            => /\ UNCHANGED <<listeners, webserver, is_running>>
               /\ raised' = "none"
     /\ (CloseManager /\ ~is_running)
          => /\ UNCHANGED <<listeners, webserver, is_running>>
             /\ raised' = "none"]_vars

\* C21: a task cancelled while it sleeps in __aenter__ or while its request
\* is in flight does not keep the limiter's lock: the lock is only ever held
\* by a task sleeping in __aenter__, and whoever holds it lets it go (unless
\* the sleep ends after the clock of the model stops), so that no later
\* request waits for it forever.
C21_CancelReleasesLock ==
  /\ [](lock /= 0 => lpc[lock] = "sleep")
  /\ [][\A t \in Tasks : (lpc[t] /= "idle" /\ lpc'[t] = "idle") => lock' /= t]_vars
  /\ \A t \in Tasks : (lock = t) ~> (lock /= t \/ until[t] > MaxTime)

\* A task cancelled in the guarded region waits in __aexit__ for the lock
\* that a sleeping task holds, after another cancelled task has left.
C21_Witness ==
  \E t, u \in Tasks :
    /\ lpc[t] = "unwinding"
    /\ lock = u
    /\ Len(rels) > 0

\* C22: once stop() was called while the autoposter was running, the loop
\* that was running begins no post beyond the next one (the one under way, or
\* else the one that follows), and does not go back to sleep after it.
C22_StopEndsAfterNextPost ==
  \A t \in LoopTasks :
    loops[t].allowed /= -1 =>
      /\ loops[t].started <= loops[t].allowed
      /\ loops[t].pc = "sleep" => loops[t].started < loops[t].allowed

\* C23: a call of cancel() leaves is_running false and the task it cancelled
\* marked for cancellation, and a task so marked begins no further post;
\* when there is no task (_task is None) the call changes nothing.
C23_CancelIsImmediate ==
  /\ [][Cancel =>
          /\ ~is_running_poster'
          /\ (task /= 0 /\ ~Done(task)) => loops'[task].must_cancel
          /\ task = 0 => UNCHANGED <<interval, has_stats, has_success, task,
                                     stopping, loops>>]_vars
  /\ [][\A t \in LoopTasks :
          loops[t].must_cancel => loops'[t].started = loops[t].started]_vars

\* A loop was cancelled after it had posted, and the autoposter is not
\* running.
C23_Witness ==
  \E t \in LoopTasks :
    /\ loops[t].ended = "cancelled"
    /\ loops[t].started >= 1
    /\ ~is_running_poster

\* C24: start() raises TopGGException and creates no task when no stats
\* callback is registered or is_running is true; otherwise it creates exactly
\* one loop task, raises nothing, and is_running is true when it returns.
C24_StartOnce ==
  [][Start =>
       IF ~has_stats \/ is_running_poster
         THEN /\ thrown' = "TopGGException"
              /\ UNCHANGED <<task, loops>>
         ELSE /\ thrown' = "none"
              /\ Cardinality({t \in LoopTasks : loops'[t] /= loops[t]}) = 1
              /\ \E t \in LoopTasks :
                   /\ loops[t].pc = "unborn"
                   /\ loops'[t].pc = "ready"
                   /\ task' = t
              /\ is_running_poster']_vars

\* start() was refused while a loop task was running.
C24_Witness ==
  /\ thrown = "TopGGException"
  /\ has_stats
  /\ is_running_poster

\* C25: in each iteration of a loop, a post that raised has had the error
\* callback invoked once (with the exception raised) and the success callback
\* not at all; a post that returned has had the success callback invoked once
\* if one was registered then, else not at all, and the error callback not
\* at all; and no callback is invoked at any other moment of the iteration.
C25_OneOutcomeCallback ==
  /\ [](\A t \in LoopTasks :
          /\ loops[t].outcome = "failed" =>
               /\ loops[t].errors = 1
               /\ loops[t].successes = 0
               /\ loops[t].err \in PostErrors
          /\ loops[t].outcome = "ok" =>
               /\ loops[t].errors = 0
               /\ loops[t].successes <= 1
          /\ loops[t].outcome \in {"none", "pending"} =>
               /\ loops[t].errors = 0
               /\ loops[t].successes = 0)
  /\ [][\A t \in LoopTasks :
          /\ (loops[t].outcome = "pending" /\ loops'[t].outcome = "ok") =>
               loops'[t].successes = (IF has_success THEN 1 ELSE 0)
          /\ loops'[t].outcome = loops[t].outcome =>
               /\ loops'[t].errors = loops[t].errors
               /\ loops'[t].successes = loops[t].successes]_vars

\* One loop's post raised and another's, with a success callback
\* registered, returned.
C25_Witness ==
  \E t, u \in LoopTasks :
    /\ loops[t].outcome = "failed"
    /\ loops[t].errors = 1
    /\ loops[u].outcome = "ok"
    /\ loops[u].successes = 1

C27_IntervalAtLeastMinimum ==
  /\ interval = 900
  /\ [](interval >= 900)
  /\ [][\A x \in Seconds :
          (SetInterval(x) /\ SecondsOf(x) < 900) =>
            /\ thrown' = "ValueError"
            /\ interval' = interval]_vars

\* An interval was set, and a later one, too short, was refused.
C27_Witness ==
  /\ thrown = "ValueError"
  /\ interval > 900

\* C28: registering an endpoint that lacks its callback, its type or its
\* route raises TopGGException, the first of these that is lacking being
\* named, and leaves the routes as they were; a registration that succeeds
\* adds exactly one POST route, the endpoint's.
C28_EndpointValidated ==
  [][AddToManager =>
       IF ~endpoint.callback
         THEN refused' = "endpoint missing callback." /\ handlers' = handlers
       ELSE IF endpoint.type = "unset"
         THEN refused' = "endpoint missing type." /\ handlers' = handlers
       ELSE IF endpoint.route = "unset"
         THEN refused' = "endpoint missing route." /\ handlers' = handlers
       ELSE /\ refused' = "none"
            /\ Cardinality({r \in Routes : handlers'[r] /= handlers[r]}) = 1
            /\ handlers[endpoint.route].kind = "none"
            /\ handlers'[endpoint.route] =
                 [kind |-> "WebhookManager", auth |-> endpoint.auth]]_vars

\* With one route registered, an endpoint that has a route but neither
\* callback nor type was refused for its callback.
C28_Witness ==
  /\ refused = "endpoint missing callback."
  /\ endpoint.type = "unset"
  /\ endpoint.route /= "unset"
  /\ \E r \in Routes : handlers[r].kind = "WebhookManager"

\* C29: set_data(x) without override, when an instance of the type of x is
\* stored, raises TopGGException and leaves the data and the lookup cache as
\* they were.
C29_NoSilentOverride ==
  [][\A x \in Instances :
       (SetData(x, FALSE) /\ data[x.type] /= 0) =>
         /\ result'.raised = "TopGGException"
         /\ data' = data
         /\ lookup_cache' = lookup_cache]_vars

\* set_data was refused for a type whose instance a base type is cached to.
C29_Witness ==
  /\ result.raised = "TopGGException"
  /\ \E type_ \in Types :
       /\ lookup_cache[type_] /= Unset
       /\ data[lookup_cache[type_].type] = lookup_cache[type_].id

\* C30 as stated: after set_data(x, override=True), get_data(S) returns x for
\* every base type S of the type of x that was cached to the instance x
\* replaces.
C30_OverrideServed ==
  [][\A x \in Instances :
       (SetData(x, TRUE) /\ data[x.type] /= 0) =>
         \A S \in Range(Mro(x.type)) \cap Types :
           (S /= x.type /\ lookup_cache[S] = [type |-> x.type, id |-> data[x.type]])
             => Got(data', lookup_cache', S) = x]_vars

\* C30: every instance the lookup cache holds is the one stored for its
\* type; after set_data(x, override=True), every base type S of the type of
\* x that was cached to the instance x replaces is cached to x, and
\* get_data(S) returns x when no instance of S itself is stored.
C30_CacheFollowsOverride ==
  /\ [](\A S \in Types :
          lookup_cache[S] /= Unset =>
            data[lookup_cache[S].type] = lookup_cache[S].id)
  /\ [][\A x \in Instances :
          (SetData(x, TRUE) /\ data[x.type] /= 0) =>
            \A S \in Range(Mro(x.type)) \cap Types :
              (S /= x.type /\ lookup_cache[S] = [type |-> x.type, id |-> data[x.type]])
                => /\ lookup_cache'[S] = x
                   /\ data[S] = 0 => Got(data', lookup_cache', S) = x]_vars

\* An instance was overridden by another, and a base type that holds no
\* instance of its own is cached to the new one.
C30_Witness ==
  \E S \in Types :
    /\ lookup_cache[S] /= Unset
    /\ lookup_cache[S].id = 2
    /\ lookup_cache[S].type /= S
    /\ data[S] = 0
    /\ Got(data, lookup_cache, S) = lookup_cache[S]
    /\ result = [raised |-> "none", value |-> Unset]

\* C31: every timestamp stored in the limiter's window lies within
\* [now - period, now], also when the limiter has not been used for longer
\* than period.
C31_WindowWithinPeriod ==
  \A i \in 1..Len(calls) : now - period <= calls[i] /\ calls[i] <= now

\* C32: a task that found the window full and sleeps resumes at
\* oldest timestamp + period, and one that finds the window full when that
\* instant has passed does not sleep.
C32_ResumeAtOldestPlusPeriod ==
  \A t \in Tasks : lpc[t] = "sleep" => until[t] = calls[1] + period

\* C33: a request whose path starts with '/bots' enters the global limiter
\* and then the bot limiter, a request to another path the global limiter
\* only: a caller that sleeps in __aenter__ holds the lock of the limiter its
\* path has at that place of this order, whose window is full, and of no
\* other limiter; a caller whose transport call is in flight is through
\* with all of them and holds no lock; and the bot limiter is changed only
\* by steps of callers whose path starts with '/bots'.
C33_LimitersByPath ==
  /\ [](\A r \in Reqs :
          LET guards == IF req[r].path \in {"/bots", "/bots/stats"}
                          THEN <<"global_", "bot">>
                          ELSE <<"global_">>
          IN /\ rpc[r] = "limsleep" =>
                  /\ li[r] \in 1..Len(guards)
                  /\ \A l \in {"global_", "bot"} :
                       lims[l].lock = r <=> l = guards[li[r]]
                  /\ Len(lims[guards[li[r]]].calls) >= MaxCallsOf(guards[li[r]])
             /\ rpc[r] = "inflight" =>
                  /\ depth[r] >= 1
                  /\ \A l \in {"global_", "bot"} : lims[l].lock /= r)
  /\ [][lims'["bot"] /= lims["bot"] =>
          \E r \in Reqs :
            /\ <<rpc'[r], li'[r], depth'[r]>> /= <<rpc[r], li[r], depth[r]>>
            /\ req'[r].path \in {"/bots", "/bots/stats"}]_vars

\* One caller sleeps in the bot limiter, having passed the global one, while
\* the request of the other, to another path, is in flight.
C33_Witness ==
  \E r, q \in Reqs :
    /\ rpc[r] = "limsleep"
    /\ li[r] = 2
    /\ lims["bot"].lock = r
    /\ rpc[q] = "inflight"
    /\ req[q].path = "/weekend"

\* C34: when a caller leaves the guarded block of its request, every limiter
\* of the path after the one its release had come to records a timestamp in
\* that step, also when the release it had come to is interrupted.
C34_EveryLimiterReleased ==
  [][\A r \in Reqs :
       depth'[r] < depth[r] =>
         LET ls == LimitersOf(req[r].path)
             k == IF li[r] = 0 THEN 1 ELSE li[r]
             stamps(c) == Cardinality({i \in 1..Len(c) : c[i] = now})
         IN \A idx \in (k + 1)..Len(ls) :
              stamps(lims'[ls[idx]].calls) > stamps(lims[ls[idx]].calls)]_vars

\* The transport attempts HTTPClient.request has made in the current call.
HTTPAttempts == Len(hseen) + (IF hpc = "inflight" THEN 1 ELSE 0)

\* C36: a call of HTTPClient.request makes at most two transport attempts,
\* every attempt after the first follows a 429 response (so a non-2xx,
\* non-429 response is never followed by another attempt), and a call whose
\* second response is a 429 ends with HTTPException.
C36_AtMostOneRetryOn429 ==
  /\ HTTPAttempts <= 2
  /\ \A i \in 1..(HTTPAttempts - 1) : hseen[i] = 429
  /\ (hpc = "done" /\ Len(hseen) = 2 /\ hseen[2] = 429) => hout = "HTTPException"

\* A step in which __request is entered: a new call of it, or the retry
\* that follows a soft 429.
EntersRequest ==
  \/ granted' = granted + 1 /\ \A r \in Reqs : rpc[r] = "inflight" => rpc'[r] = "inflight"
  \/ \E r \in Reqs : rpc[r] = "backoff" /\ rpc'[r] /= "backoff"

\* A step in which a request gets past the checks at the head of __request,
\* to the limiters and the transport.
PassesHead ==
  \E r \in Reqs : /\ rpc[r] \in {"idle", "done", "backoff"}
                  /\ rpc'[r] \in {"acquire", "limsleep", "inflight"}

\* A step in which a hard 429 is received and recorded.
RecordsHardBlock ==
  \E r \in Reqs : /\ rpc[r] = "inflight"
                  /\ outcome'[r].kind = "Ratelimited"
                  /\ outcome'[r].value > MAXIMUM_DELAY_THRESHOLD
                  /\ current_ratelimit' = now + outcome'[r].value

\* C35 as stated: a request issued at or after the blocked-until instant
\* clears the block and goes on to the transport; while no block is recorded
\* no request is fast-failed with Ratelimited; and a block is recorded only
\* when a hard 429 is received.
C35_BlockExpires ==
  [][/\ (EntersRequest /\ current_ratelimit /= -1 /\ now >= current_ratelimit)
          => (current_ratelimit' = -1 /\ PassesHead)
     /\ current_ratelimit = -1 =>
          /\ \A r \in Reqs :
               (rpc[r] /= "inflight" /\ outcome'[r] /= outcome[r])
                 => outcome'[r].kind /= "Ratelimited"
          /\ current_ratelimit' /= -1 => RecordsHardBlock]_vars

\* C35 amended: the same for the requests of a client that is not closed; a
\* closed client rejects the request before it looks at the block.
C35_BlockExpiresWhenOpen ==
  [][/\ (EntersRequest /\ ~closed /\ current_ratelimit /= -1 /\ now >= current_ratelimit)
          => (current_ratelimit' = -1 /\ PassesHead)
     /\ (EntersRequest /\ closed) => (~PassesHead /\ current_ratelimit' = current_ratelimit)
     /\ current_ratelimit = -1 =>
          /\ \A r \in Reqs :
               (rpc[r] /= "inflight" /\ outcome'[r] /= outcome[r])
                 => outcome'[r].kind /= "Ratelimited"
          /\ (EntersRequest /\ ~closed) => PassesHead
          /\ current_ratelimit' /= -1 => RecordsHardBlock]_vars

\* A hard block was recorded, it has expired, a later request has cleared it
\* and is at the transport.
C35_Witness ==
  /\ promised > 0
  /\ now >= promised
  /\ current_ratelimit = -1
  /\ \E r \in Reqs : rpc[r] = "inflight" /\ ncalls[r] = 1

\* The timestamps of a window that were recorded at instant t.
StampsAt(c, t) == Cardinality({i \in 1..Len(c) : c[i] = t})

\* The transport calls of a request that limiter l has yet to record: one
\* for each `async with` of __request the request is inside of (d of them,
\* for path `path`), less the outermost one when its release (at position k
\* of the limiters) has already passed l.
Owed(l, path, pc, d, k) ==
  LET ls == IF path \in {"/bots", "/bots/stats"} THEN <<"global_", "bot">> ELSE <<"global_">>
  IN IF \A i \in 1..Len(ls) : ls[i] /= l THEN 0
     ELSE IF pc = "release" /\ \E i \in 1..(k - 1) : ls[i] = l THEN d - 1
     ELSE d

\* C37: every transport invocation is matched by exactly one timestamp in
\* each applicable limiter, whatever its outcome: in every step the
\* timestamps a limiter records are those it owed before the step, plus the
\* transport calls made in the step, less those it still owes after it; a
\* request that is over is owed nothing; and a new request that is rejected
\* before the network leaves the windows as they are.
C37_OneTimestampPerTransportCall ==
  /\ [](\A r \in Reqs : rpc[r] \in {"idle", "done"} =>
           \A l \in {"global_", "bot"} : Owed(l, req[r].path, rpc[r], depth[r], li[r]) = 0)
  /\ [][/\ \A r \in Reqs : (rpc'[r] = "inflight" /\ rpc[r] /= "inflight") <=> depth'[r] = depth[r] + 1
        /\ \A l \in {"global_", "bot"} :
             LET made(r) == IF rpc'[r] = "inflight" /\ rpc[r] /= "inflight"
                              THEN Owed(l, req'[r].path, "inflight", 1, 0) ELSE 0
                 before(r) == Owed(l, req[r].path, rpc[r], depth[r], li[r])
                 after(r) == Owed(l, req'[r].path, rpc'[r], depth'[r], li'[r])
                 due(r) == before(r) + made(r) - after(r)
             IN IF now' = now
                  THEN /\ StampsAt(lims'[l].calls, now) - StampsAt(lims[l].calls, now)
                            = due(1) + due(2)
                       /\ Len(lims'[l].calls) <= Len(lims[l].calls) + due(1) + due(2)
                  ELSE lims'[l].calls = lims[l].calls
        /\ (/\ granted' = granted + 1
            /\ \A r \in Reqs : rpc'[r] = "inflight" <=> rpc[r] = "inflight")
             => \A l \in {"global_", "bot"} : lims'[l].calls = lims[l].calls]_vars

\* The loop tasks that were started, are not done and were not asked to
\* cancel.
AliveLoops ==
  {t \in LoopTasks : loops[t].pc \notin {"unborn", "finished", "done"} /\ ~loops[t].must_cancel}

\* C38: at most one loop task is alive at a time, and is_running is true
\* whenever a loop task is alive, so that start() cannot launch a second
\* loop beside it.
C38_OneLoopAtATime ==
  /\ Cardinality(AliveLoops) <= 1
  /\ AliveLoops /= {} => is_running_poster

\* C39: with concurrent requests, some guarded by the global limiter alone
\* and some by the composite, no deadlock is reachable (a lock that a caller
\* waits for is held by a caller that sleeps in that limiter and waits for
\* nothing else), and every caller that is acquiring (waiting for a limiter's
\* lock or sleeping in a limiter) eventually gets to its guarded section.
C39_AcquireProceeds ==
  /\ [](\A r \in Reqs :
          rpc[r] = "acquire" =>
            LET held == lims[(IF req[r].path \in {"/bots", "/bots/stats"}
                               THEN <<"global_", "bot">> ELSE <<"global_">>)[li[r]]].lock
            IN held = 0 \/ (held /= r /\ rpc[held] = "limsleep"))
  /\ \A r \in Reqs : (rpc[r] \in {"acquire", "limsleep"}) ~> (rpc[r] = "inflight")

\* A caller of a path outside '/bots' sleeps in the global limiter, holding
\* its lock, while a caller of a '/bots' path waits for that lock.
C39_Witness ==
  \E r, q \in Reqs : /\ rpc[r] = "limsleep"
                     /\ req[r].path \notin {"/bots", "/bots/stats"}
                     /\ rpc[q] = "acquire"
                     /\ req[q].path \in {"/bots", "/bots/stats"}
                     /\ lims["global_"].lock = r

\* C40: for one limiter no two tasks are ever inside the sections that read
\* or modify the call window: at most one task is suspended in the sleep of
\* __aenter__, and while one is, no other task passes the length check of
\* __aenter__ and none appends to or evicts from the window in __aexit__.
C40_WindowSectionsExclusive ==
  /\ [](Cardinality({t \in Tasks : lpc[t] = "sleep"}) <= 1)
  /\ [][(\E t \in Tasks : lpc[t] = "sleep") =>
          /\ calls' = calls
          /\ \A u \in Tasks : lpc[u] /= "sleep" => lpc'[u] = lpc[u]]_vars

\* A task is suspended in the sleep of __aenter__ before its end, while a
\* second task is ready to enter and a third is ready to leave.
C40_Witness ==
  \E t, u, v \in Tasks : /\ lpc[t] = "sleep"
                         /\ now < until[t]
                         /\ lpc[u] = "idle"
                         /\ lpc[v] = "guarded"

====
